---- MODULE Spec2Model ----
(***************************************************************************)
(* Model of the asset pipeline of ArkPRTS (arkprts/assets/bundle.py and    *)
(* arkprts/assets/base.py): the manifest diff, the update_assets batch     *)
(* (manifest fetch, allow filter, diff, schema update, bundle downloads,   *)
(* per-bundle unpack, manifest save) and the get_excel table cache.        *)
(*                                                                         *)
(* Strings that the code inspects character by character (bundle names,    *)
(* allow patterns) are sequences of one-character strings.  Python dicts   *)
(* are functions whose DOMAIN is the set of keys present.                  *)
(***************************************************************************)
EXTENDS Integers, Sequences, FiniteSets, TLC

VARIABLES
    pc,                  \* position of the update_assets coroutine
    server,              \* update_assets: resolved server argument
    allow,               \* update_assets: allow pattern argument
    force,               \* update_assets: force argument
    hot_update_list,     \* update_assets: manifest fetched by this call
    old_hot_update_list, \* update_assets: stored manifest read by this call
    outdated_names,      \* update_assets: set(get_outdated_hashes(...)) or None
    requested_names,     \* update_assets: names to download
    attempts,            \* number of GET requests sent per bundle name by this call
    dl,                  \* outcome of _download_unity_file per bundle name
    unpacked,            \* bundles whose _parse_and_save generator was consumed
    failed_at,           \* per consumed bundle: where its generator raised
    saved,               \* <<bundle, index>> entries written to disk by this call
    result,              \* how the update_assets call ended
    loaded,              \* Assets.loaded
    UPDATED_FBS,         \* module global UPDATED_FBS
    stored,              \* <root>/<server>/hot_update_list.json per server
    disk,                \* <root>/<server>/<path> file contents
    excel_cache,         \* Assets.excel_cache
    ge,                  \* the last get_excel call and what it did
    call,                \* the last single call (aget_file, helpers) and its outcome
    max_sessions,        \* MultiAuth.max_sessions
    sessions,            \* MultiAuth.sessions
    session,             \* Auth.session of the single-session client
    task,                \* per caller: position of its auth_request coroutine
    calls,               \* the auth_request calls of the MultiAuth, in call order
    run,                 \* per concurrent run: position and locals of its coroutine or thread
    versions,            \* NetworkSession.versions
    hv_requests,         \* number of version requests sent per server
    fbs_updates,         \* number of repository updates started per locale group
    scratch,             \* the files of <tmp>/TempArknightsFBS
    downloaded,          \* the bundles downloaded since the client was built
    futures,             \* what the executor holds for each submitted bundle
    decoded_by           \* the threads that ran a part of each bundle's decoding

\* the state of the single calls and of the authentication clients
callVars == <<call>>
authVars == <<max_sessions, sessions, session, task, calls>>

\* the state of the concurrent runs and the record of the downloads
runVars == <<run, versions, hv_requests, fbs_updates, scratch, downloaded,
            futures, decoded_by>>

vars == <<pc, server, allow, force, hot_update_list, old_hot_update_list,
          outdated_names, requested_names, attempts, dl, unpacked, failed_at,
          saved, result, loaded, UPDATED_FBS, stored, disk, excel_cache, ge,
          call, max_sessions, sessions, session, task, calls,
          run, versions, hv_requests, fbs_updates, scratch, downloaded,
          futures, decoded_by>>

----------------------------------------------------------------------------
(* Bounds and input domains *)

\* hashes are 0..MaxHash
MaxHash == 2
\* a manifest lists at most MaxManifestLen bundles
MaxManifestLen == 2

None == "None"

Hashes == 0..MaxHash

\* bundle names offered by the remote manifest; "g" abbreviates "gamedata"
GA == <<"g", "/", "a">>
XB == <<"x", "b">>
BundleNames == {GA, XB}

\* the substring update_assets looks for in a requested name
GAMEDATA == <<"g">>

\* allow patterns that callers pass
AllowPatterns == {<<"*">>, <<"g", "/", "*">>, <<"?", "b">>}

Servers == {"en", "jp"}
\* MultiAuth.__init__: max_sessions: int = 6
DefaultMaxSessions == 6
default_server == "en"
\* servers that update_assets is called for
SyncServers == {"en"}

TableNames == {"t1", "t2"}

----------------------------------------------------------------------------
(* Python dict helpers *)

Put(f, k, v) == [x \in (DOMAIN f) \cup {k} |-> IF x = k THEN v ELSE f[x]]

EmptyDict == [x \in {} |-> None]

Range(s) == {s[i] : i \in DOMAIN s}

----------------------------------------------------------------------------
(* Pure functions *)

\* fnmatch.fnmatch(name, pat) for patterns made of literals, "?" and "*"
RECURSIVE fnmatch(_, _)
fnmatch(name, pat) ==
    IF pat = <<>> THEN name = <<>>
    ELSE IF Head(pat) = "*"
         THEN fnmatch(name, Tail(pat))
              \/ (name # <<>> /\ fnmatch(Tail(name), pat))
         ELSE /\ name # <<>>
              /\ (Head(pat) = "?" \/ Head(pat) = Head(name))
              /\ fnmatch(Tail(name), Tail(pat))

\* Python's `sub in name` on strings
Contains(name, sub) ==
    \E i \in 0..(Len(name) - Len(sub)) : SubSeq(name, i + 1, i + Len(sub)) = sub

\* [info["name"] for info in abInfos]
NamesOf(abInfos) == [i \in DOMAIN abInfos |-> abInfos[i].name]

\* {info["name"]: info["hash"] for info in abInfos}: a later entry overwrites
RECURSIVE DictOfHashes(_)
DictOfHashes(abInfos) ==
    IF abInfos = <<>> THEN EmptyDict
    ELSE LET n == Len(abInfos)
         IN  Put(DictOfHashes(SubSeq(abInfos, 1, n - 1)), abInfos[n].name, abInfos[n].hash)

\* a variant that forgets the names that previous does not record
get_outdated_hashes_skip_new(hot_update_now, hot_update_before) ==
    LET before_hashes == DictOfHashes(hot_update_before)
        Differs(info) == /\ info.name \in DOMAIN before_hashes
                         /\ info.hash # before_hashes[info.name]
    IN  NamesOf(SelectSeq(hot_update_now, Differs))

\* get_outdated_hashes: before_hashes.get(name) is None for an unknown name,
\* and a hash (a string) never equals None
get_outdated_hashes(hot_update_now, hot_update_before) ==
    LET before_hashes == DictOfHashes(hot_update_before)
        Differs(info) == IF info.name \in DOMAIN before_hashes
                         THEN info.hash # before_hashes[info.name]
                         ELSE TRUE
    IN  NamesOf(SelectSeq(hot_update_now, Differs))

\* the manifests a server can serve: every bundle is listed once
Manifests ==
    UNION { { m \in [1..n -> [name : BundleNames, hash : Hashes]] :
                \A i, j \in 1..n : m[i].name = m[j].name => i = j }
            : n \in 0..MaxManifestLen }

\* the manifests that list the bundle of the tables only
TableManifests == {m \in Manifests : \A i \in DOMAIN m : m[i].name = GA}

\* f"gamedata/excel/{name}.json"
ExcelPath(name) == <<"gamedata/excel", name>>

\* the relative output paths that unpack_assets yields for a bundle, in
\* container order: GA holds two tables, XB holds no text asset
EntriesOf(bundle) ==
    IF bundle = GA THEN <<ExcelPath("t1"), ExcelPath("t2")>> ELSE <<>>

\* the table that the bundle with content hash h decodes to: a JSON object
\* with h keys (hash 0 is the empty object)
TableOf(h) == 1..h

\* json.dumps(...).encode() and json.loads
json_dumps(table) == <<"json", table>>
json_loads(bytes) == bytes[2]

\* truth value of a parsed JSON object in `if data := ...`
Truthy(data) == data # {}

----------------------------------------------------------------------------
(* Optional values: <<>> is None, <<v>> is the value v *)

Nothing == <<>>
Some(v) == <<v>>
IsSome(o) == o # <<>>
Val(o) == o[1]

----------------------------------------------------------------------------
(* update_assets *)

\* the per-call locals before the call has computed them
NoAttempts == [n \in BundleNames |-> 0]
NoDownloads == [n \in BundleNames |-> "none"]
NoFailures == [n \in BundleNames |-> -1]

\* no single call has been made yet
NoCall == [op |-> "none"]

\* the callers that can have an auth_request coroutine running
Callers == {"c1", "c2"}

\* AuthSession(server, uid): the dataclass defaults; locked and waiters are
\* the state of its asyncio.Lock, sent the seqnum headers sent with it so far
AuthSession(srv, uid) ==
    [server |-> srv, uid |-> uid, secret |-> "", seqnum |-> 1,
     locked |-> FALSE, waiters |-> <<>>, sent |-> <<>>]

\* a caller without a running coroutine
IdleTask == [pc |-> "idle", client |-> "none", server |-> default_server, sess |-> -1]

\* MultiAuth(max_sessions=ms) and Auth(default_server) after construction
AuthInit(ms) ==
    /\ max_sessions = ms
    /\ sessions = <<>>
    /\ session = AuthSession(default_server, "")
    /\ task = [c \in Callers |-> IdleTask]
    /\ calls = <<>>

\* the coroutines and threads that can run concurrently
Runs == {"r1", "r2"}

\* the locale groups of the schema repositories
Groups == {"cn", "yostar"}

\* a run that has not started or has ended
IdleRun == [pc |-> "idle"]

\* NetworkSession.__init__ (versions = {server: {}}), no request sent, an
\* empty scratch directory, nothing downloaded
RunInit ==
    /\ run = [r \in Runs |-> IdleRun]
    /\ versions = [s \in Servers |-> EmptyDict]
    /\ hv_requests = [s \in Servers |-> <<>>]
    /\ fbs_updates = [g \in Groups |-> [forced |-> 0, unforced |-> 0]]
    /\ scratch = EmptyDict
    /\ downloaded = {}
    /\ futures = [b \in BundleNames |-> "none"]
    /\ decoded_by = [b \in BundleNames |-> {}]

InitAssets ==
    /\ pc = "idle"
    /\ server = default_server
    /\ allow = <<"*">>
    /\ force = FALSE
    /\ hot_update_list = <<>>
    /\ old_hot_update_list = Nothing
    /\ outdated_names = Nothing
    /\ requested_names = <<>>
    /\ attempts = NoAttempts
    /\ dl = NoDownloads
    /\ unpacked = {}
    /\ failed_at = NoFailures
    /\ saved = {}
    /\ result = "none"
    /\ loaded = FALSE
    /\ UPDATED_FBS = [cn |-> FALSE, yostar |-> FALSE]
    /\ stored = EmptyDict
    /\ disk = EmptyDict
    /\ excel_cache = EmptyDict
    /\ ge = [op |-> "none"]

\* BundleAssets() together with the clients built with their defaults
Init ==
    /\ InitAssets
    /\ call = NoCall
    /\ AuthInit(DefaultMaxSessions)
    /\ RunInit

\* _get_current_hot_update_list: None when the file does not exist
GetCurrentHotUpdateList(srv) ==
    IF srv \in DOMAIN stored THEN Some(stored[srv]) ELSE Nothing

\* a variant of the name selection that applies the allow pattern only
\* together with the hash comparison
RequestedNamesAllowOnlyWithDiff(now, pattern, old, forced) ==
    IF IsSome(old) /\ ~forced
    THEN SelectSeq(NamesOf(now),
                   LAMBDA name : /\ fnmatch(name, pattern)
                                 /\ name \in Range(get_outdated_hashes(now, Val(old))))
    ELSE NamesOf(now)

\* a variant of the name selection that compares hashes even when forced
RequestedNamesIgnoreForce(now, pattern, old, forced) ==
    LET matching == SelectSeq(NamesOf(now), LAMBDA name : fnmatch(name, pattern))
    IN  IF IsSome(old)
        THEN SelectSeq(matching,
                       LAMBDA name : name \in Range(get_outdated_hashes(now, Val(old))))
        ELSE matching

\* a variant of the name selection that treats a missing stored manifest as
\* one that records everything
RequestedNamesNothingWhenFresh(now, pattern, old, forced) ==
    LET matching == SelectSeq(NamesOf(now), LAMBDA name : fnmatch(name, pattern))
    IN  IF forced THEN matching
        ELSE IF IsSome(old)
        THEN SelectSeq(matching,
                       LAMBDA name : name \in Range(get_outdated_hashes(now, Val(old))))
        ELSE <<>>

\* update_assets, the names to download: the allow filter, then the diff
\* against the stored manifest unless there is none or force is set
RequestedNames(now, pattern, old, forced) ==
    LET matching == SelectSeq(NamesOf(now), LAMBDA name : fnmatch(name, pattern))
    IN  IF IsSome(old) /\ ~forced
        THEN SelectSeq(matching,
                       LAMBDA name : name \in Range(get_outdated_hashes(now, Val(old))))
        ELSE matching

\* a variant of the gather that downloads every bundle of the fetched manifest
SendAllListed(names) ==
    [n \in BundleNames |->
        attempts[n] + Cardinality({i \in DOMAIN hot_update_list : hot_update_list[i].name = n})]

\* the GET requests that asyncio.gather starts: one per requested name
SendAll(names) ==
    [n \in BundleNames |-> attempts[n] + Cardinality({i \in DOMAIN names : names[i] = n})]

\* update_assets is called: update_assets(allow, server=srv, force=forced)
Start(pattern, srv, forced) ==
    /\ pc \in {"idle", "done"}
    /\ pc' = "fetch"
    /\ server' = srv
    /\ allow' = pattern
    /\ force' = forced
    /\ hot_update_list' = <<>>
    /\ old_hot_update_list' = Nothing
    /\ outdated_names' = Nothing
    /\ requested_names' = <<>>
    /\ attempts' = NoAttempts
    /\ dl' = NoDownloads
    /\ unpacked' = {}
    /\ failed_at' = NoFailures
    /\ saved' = {}
    /\ result' = "running"
    /\ UNCHANGED <<callVars, authVars, runVars>>
    /\ UNCHANGED <<loaded, UPDATED_FBS, stored, disk, excel_cache, ge>>

\* _get_hot_update_list raises: the request of the manifest failed
FetchFails ==
    /\ pc = "fetch"
    /\ pc' = "done"
    /\ result' = "raised"
    /\ UNCHANGED <<callVars, authVars, runVars>>
    /\ UNCHANGED <<server, allow, force, hot_update_list, old_hot_update_list,
                   outdated_names, requested_names, attempts, dl, unpacked,
                   failed_at, saved, loaded, UPDATED_FBS, stored, disk,
                   excel_cache, ge>>

\* the manifest arrives; the names to download are computed
FetchHotUpdateList(now) ==
    /\ pc = "fetch"
    /\  LET old == GetCurrentHotUpdateList(server)
            names == RequestedNames(now, allow, old, force)
        IN  /\ hot_update_list' = now
            /\ old_hot_update_list' = old
            /\ outdated_names' = IF IsSome(old) /\ ~force
                                 THEN Some(Range(get_outdated_hashes(now, Val(old))))
                                 ELSE Nothing
            /\ requested_names' = names
            /\ IF \E i \in DOMAIN names : Contains(names[i], GAMEDATA)
               THEN /\ pc' = "fbs"
                    /\ attempts' = attempts
               ELSE /\ pc' = "download"
                    /\ attempts' = SendAll(names)
    /\ UNCHANGED <<callVars, authVars, runVars>>
    /\ UNCHANGED <<server, allow, force, dl, unpacked, failed_at, saved, result,
                   loaded, UPDATED_FBS, stored, disk, excel_cache, ge>>

\* update_fbs_schema(): the repositories of the groups in `broken` fail to update
UpdateFbsSchema ==
    /\ pc = "fbs"
    /\ \E broken \in SUBSET {"cn", "yostar"} :
        LET runCn == ~UPDATED_FBS.cn
            cnRaises == runCn /\ "cn" \in broken
            runYostar == ~cnRaises /\ ~UPDATED_FBS.yostar
            yostarRaises == runYostar /\ "yostar" \in broken
        IN  /\ UPDATED_FBS' = [cn |-> UPDATED_FBS.cn \/ runCn,
                               yostar |-> UPDATED_FBS.yostar \/ runYostar]
            /\ IF cnRaises \/ yostarRaises
               THEN /\ pc' = "done"
                    /\ result' = "raised"
                    /\ attempts' = attempts
               ELSE /\ pc' = "download"
                    /\ result' = result
                    /\ attempts' = SendAll(requested_names)
    /\ UNCHANGED <<callVars, authVars, runVars>>
    /\ UNCHANGED <<server, allow, force, hot_update_list, old_hot_update_list,
                   outdated_names, requested_names, dl, unpacked, failed_at,
                   saved, loaded, stored, disk, excel_cache, ge>>

\* the outcomes of the _download_unity_file tasks that asyncio.gather can
\* observe when it finishes: every task has returned ("ok"), or a task has
\* raised ("failed": the request, the status check or the unzipping) while
\* others may still be running ("none")
GatherOutcomes(names) ==
    {o \in [BundleNames -> {"ok", "failed", "none"}] :
        /\ \A n \in BundleNames \ Range(names) : o[n] = "none"
        /\ \/ \A n \in Range(names) : o[n] = "ok"
           \/ \E n \in Range(names) : o[n] = "failed"}

\* datas = await asyncio.gather(...): returns the data of every requested
\* bundle, or raises the first exception of a download into update_assets
GatherStep ==
    /\ pc = "download"
    /\ \E o \in GatherOutcomes(requested_names) :
        /\ dl' = o
        /\ IF \E n \in Range(requested_names) : o[n] = "failed"
           THEN pc' = "done" /\ result' = "raised"
           ELSE pc' = "unpack" /\ result' = result
    /\ requested_names' = requested_names
    /\ UNCHANGED <<server, allow, force, hot_update_list, old_hot_update_list,
                   outdated_names, attempts, unpacked,
                   failed_at, saved, loaded, UPDATED_FBS, stored, disk,
                   excel_cache, ge>>

\* the gather within one update_assets call
Gather ==
    /\ GatherStep
    /\ UNCHANGED <<callVars, authVars, runVars>>

\* the hash that the fetched manifest gives for a bundle
HashOf(abInfos, name) == DictOfHashes(abInfos)[name]

\* a variant of _parse_and_save that decodes a whole bundle before it writes
WrittenAllOrNothing(bundle, k) ==
    IF k = Len(EntriesOf(bundle)) + 1 THEN 1..Len(EntriesOf(bundle)) ELSE {}

\* a variant of _parse_and_save that also writes the entry whose decoding raised
WrittenWithFailedEntry(bundle, k) ==
    IF k <= Len(EntriesOf(bundle)) THEN 1..k ELSE 1..(k - 1)

\* _parse_and_save is a generator: it writes each entry that unpack_assets
\* yields before the next one is decoded.  k = 0: load_unity_file raises;
\* k in 1..n: decoding entry k raises; k = n + 1: nothing raises
Written(bundle, k) == 1..(k - 1)

\* the files of <root>/<srv>/ after the entries ix of a bundle are written
WriteEntries(files, bundle, ix, h) ==
    LET paths == {EntriesOf(bundle)[i] : i \in ix}
    IN  [p \in (DOMAIN files) \cup paths |->
            IF p \in paths THEN json_dumps(TableOf(h)) ELSE files[p]]

FilesOf(srv) == IF srv \in DOMAIN disk THEN disk[srv] ELSE EmptyDict

\* a variant of the loop over the futures without the try/except
ConsumeNoCatch(bundle, k) ==
    /\ pc = "unpack"
    /\ bundle \in Range(requested_names) \ unpacked
    /\ k \in 0..(Len(EntriesOf(bundle)) + 1)
    /\ LET ix == Written(bundle, k)
       IN  /\ disk' = IF ix = {} THEN disk
                      ELSE Put(disk, server,
                               WriteEntries(FilesOf(server), bundle, ix,
                                            HashOf(hot_update_list, bundle)))
           /\ saved' = saved \cup {<<bundle, i>> : i \in ix}
    /\ unpacked' = unpacked \cup {bundle}
    /\ failed_at' = [failed_at EXCEPT ![bundle] =
                        IF k <= Len(EntriesOf(bundle)) THEN k ELSE -1]
    /\ IF k <= Len(EntriesOf(bundle))
       THEN pc' = "done" /\ result' = "raised"
       ELSE pc' = pc /\ result' = result
    /\ UNCHANGED <<callVars, authVars, runVars>>
    /\ UNCHANGED <<server, allow, force, hot_update_list, old_hot_update_list,
                   outdated_names, requested_names, attempts, dl,
                   loaded, UPDATED_FBS, stored, excel_cache, ge>>

\* one round of `for name, f in zip(...)`: the generator of one bundle is
\* consumed on the event loop, an exception it raises is caught and logged
Consume(bundle, k) ==
    /\ pc = "unpack"
    /\ bundle \in Range(requested_names) \ unpacked
    /\ k \in 0..(Len(EntriesOf(bundle)) + 1)
    /\ LET ix == Written(bundle, k)
       IN  /\ disk' = IF ix = {} THEN disk
                      ELSE Put(disk, server,
                               WriteEntries(FilesOf(server), bundle, ix,
                                            HashOf(hot_update_list, bundle)))
           /\ saved' = saved \cup {<<bundle, i>> : i \in ix}
    /\ unpacked' = unpacked \cup {bundle}
    /\ failed_at' = [failed_at EXCEPT ![bundle] =
                        IF k <= Len(EntriesOf(bundle)) THEN k ELSE -1]
    /\ UNCHANGED <<callVars, authVars, runVars>>
    /\ UNCHANGED <<pc, server, allow, force, hot_update_list, old_hot_update_list,
                   outdated_names, requested_names, attempts, dl, result,
                   loaded, UPDATED_FBS, stored, excel_cache, ge>>

\* a variant of the save that keeps the stored manifest of a batch in which a
\* bundle failed to decode
SaveHotUpdateListUnlessFailed ==
    /\ pc = "unpack"
    /\ unpacked = Range(requested_names)
    /\ stored' = IF \E n \in BundleNames : failed_at[n] # -1
                 THEN stored
                 ELSE Put(stored, server, hot_update_list)
    /\ loaded' = TRUE
    /\ pc' = "done"
    /\ result' = "returned"
    /\ UNCHANGED <<callVars, authVars, runVars>>
    /\ UNCHANGED <<server, allow, force, hot_update_list, old_hot_update_list,
                   outdated_names, requested_names, attempts, dl, unpacked,
                   failed_at, saved, UPDATED_FBS, disk, excel_cache, ge>>

\* the fetched manifest is written to hot_update_list.json; the call returns
SaveHotUpdateList ==
    /\ pc = "unpack"
    /\ unpacked = Range(requested_names)
    /\ stored' = Put(stored, server, hot_update_list)
    /\ loaded' = TRUE
    /\ pc' = "done"
    /\ result' = "returned"
    /\ UNCHANGED <<callVars, authVars, runVars>>
    /\ UNCHANGED <<server, allow, force, hot_update_list, old_hot_update_list,
                   outdated_names, requested_names, attempts, dl, unpacked,
                   failed_at, saved, UPDATED_FBS, disk, excel_cache, ge>>

----------------------------------------------------------------------------
(* get_excel *)

\* BundleAssets.get_file: the bytes of <root>/<srv>/<path>, None standing
\* for the FileNotFoundError of read_bytes
get_file(path, srv) ==
    IF srv \in DOMAIN disk /\ path \in DOMAIN disk[srv]
    THEN Some(disk[srv][path]) ELSE Nothing

\* excel_cache.setdefault(srv, {})
SetDefault(cache, srv) == IF srv \in DOMAIN cache THEN cache ELSE Put(cache, srv, EmptyDict)

\* the entry that the cache holds for (srv, path), None when it holds none
CacheEntry(cache, srv, path) ==
    IF srv \in DOMAIN cache /\ path \in DOMAIN cache[srv]
    THEN Some(cache[srv][path]) ELSE Nothing

\* get_excel(name, server=srvArg); ge records the call: the cache entry
\* before it, whether get_file was called, whether it raised, what it returned
get_excel_body(name, srvArg) ==
    LET srv == IF srvArg = None THEN default_server ELSE srvArg
        path == ExcelPath(name)
        cache == SetDefault(excel_cache, srv)
        file == get_file(path, srv)
    IN  IF path \in DOMAIN cache[srv] /\ Truthy(cache[srv][path])
        THEN /\ excel_cache' = cache
             /\ ge' = [op |-> "get_excel", server |-> srv, name |-> name,
                       read |-> FALSE, raised |-> FALSE,
                       ret |-> Some(cache[srv][path])]
        ELSE IF IsSome(file)
        THEN /\ excel_cache' = Put(cache, srv, Put(cache[srv], path, json_loads(Val(file))))
             /\ ge' = [op |-> "get_excel", server |-> srv, name |-> name,
                       read |-> TRUE, raised |-> FALSE,
                       ret |-> Some(json_loads(Val(file)))]
        ELSE /\ excel_cache' = cache
             /\ ge' = [op |-> "get_excel", server |-> srv, name |-> name,
                       read |-> TRUE, raised |-> TRUE,
                       ret |-> Nothing]

get_excel(name, srvArg) ==
    /\ get_excel_body(name, srvArg)
    /\ UNCHANGED <<callVars, authVars, runVars>>
    /\ UNCHANGED <<pc, server, allow, force, hot_update_list, old_hot_update_list,
                   outdated_names, requested_names, attempts, dl, unpacked,
                   failed_at, saved, result, loaded, UPDATED_FBS, stored, disk>>

----------------------------------------------------------------------------

Next ==
    \/ \E pattern \in AllowPatterns, srv \in SyncServers, forced \in BOOLEAN :
          Start(pattern, srv, forced)
    \/ FetchFails
    \/ \E now \in Manifests : FetchHotUpdateList(now)
    \/ UpdateFbsSchema
    \/ Gather
    \/ \E bundle \in BundleNames, k \in 0..3 : Consume(bundle, k)
    \/ SaveHotUpdateList

Spec == Init /\ [][Next]_vars

\* update_assets together with get_excel calls of other coroutines
NextExcel ==
    \/ \E forced \in BOOLEAN : Start(<<"*">>, default_server, forced)
    \/ FetchFails
    \/ \E now \in TableManifests : FetchHotUpdateList(now)
    \/ UpdateFbsSchema
    \/ Gather
    \/ \E bundle \in BundleNames, k \in 0..3 : Consume(bundle, k)
    \/ SaveHotUpdateList
    \/ \E name \in TableNames, srvArg \in Servers \cup {None} : get_excel(name, srvArg)

SpecExcel == Init /\ [][NextExcel]_vars

----------------------------------------------------------------------------
(* Properties of update_assets *)

\* the call has fetched its manifest and computed the names to download
Diffed ==
    \/ pc \in {"fbs", "download", "unpack"}
    \/ pc = "done" /\ (result = "returned" \/ hot_update_list # <<>>)

\* the call has started its downloads
Downloading ==
    \/ pc \in {"download", "unpack"}
    \/ pc = "done" /\ (result = "returned" \/ \E n \in BundleNames : dl[n] # "none")

\* the names of the fetched manifest that match the allow pattern
Matching == {n \in Range(NamesOf(hot_update_list)) : fnmatch(n, allow)}

\* previous records name with hash h
Records(previous, name, h) ==
    \E j \in DOMAIN previous : previous[j].name = name /\ previous[j].hash = h

Lists(previous, name) == \E j \in DOMAIN previous : previous[j].name = name

\* C1: the diff returns exactly the names of current whose hash differs from
\* the one previous records or that previous does not list, never a name that
\* only previous lists, and it is empty iff previous records every name of
\* current with the same hash
C1_DiffExact ==
    IsSome(outdated_names) =>
        LET now == hot_update_list
            before == Val(old_hot_update_list)
            out == Val(outdated_names)
        IN  /\ out = {now[i].name : i \in {j \in DOMAIN now :
                                        ~Records(before, now[j].name, now[j].hash)}}
            /\ \A n \in out : Lists(now, n)
            /\ (out = {}) <=> \A i \in DOMAIN now : Records(before, now[i].name, now[i].hash)

\* C1 witness: a diff that returns a new name, keeps back an unchanged one
C1_Witness ==
    /\ IsSome(outdated_names)
    /\ \E n \in Val(outdated_names) : ~Lists(Val(old_hot_update_list), n)
    /\ \E i \in DOMAIN hot_update_list :
          /\ hot_update_list[i].name \notin Val(outdated_names)
          /\ Lists(Val(old_hot_update_list), hot_update_list[i].name)

\* C2: with no stored manifest every name of the fetched manifest counts as
\* outdated: the names to download are all the names the allow pattern
\* selects, and all the names of the manifest when the pattern is "*"
C2_FreshTakesAll ==
    (Diffed /\ ~IsSome(old_hot_update_list)) =>
        /\ Range(requested_names) = Matching
        /\ allow = <<"*">> => requested_names = NamesOf(hot_update_list)

\* C2 witness: a first sync without force of a manifest of two bundles
C2_Witness ==
    /\ Diffed
    /\ ~IsSome(old_hot_update_list)
    /\ ~force
    /\ allow = <<"*">>
    /\ Len(hot_update_list) = 2
    /\ Len(requested_names) = 2

\* C3: a bundle whose name does not match the allow pattern is never
\* downloaded, whatever its hash, the stored manifest and force
C3_AllowFirst ==
    \A n \in BundleNames : ~fnmatch(n, allow) => attempts[n] = 0

\* C3 witness: downloads have started, the manifest lists a bundle outside
\* the pattern whose hash differs from the stored one, with force set
C3_Witness ==
    /\ Downloading
    /\ force
    /\ IsSome(old_hot_update_list)
    /\ \E n \in Range(requested_names) : attempts[n] = 1
    /\ \E i \in DOMAIN hot_update_list :
          /\ ~fnmatch(hot_update_list[i].name, allow)
          /\ Lists(Val(old_hot_update_list), hot_update_list[i].name)
          /\ ~Records(Val(old_hot_update_list), hot_update_list[i].name,
                      hot_update_list[i].hash)

\* C4: with force set, once the downloads start every name of the manifest
\* that matches the allow pattern is downloaded, also when the stored
\* manifest records the same hash for it
C4_ForceTakesAll ==
    (Downloading /\ force) => \A n \in Matching : attempts[n] = 1

\* C4 witness: a forced sync downloads a bundle whose hash is unchanged
C4_Witness ==
    /\ Downloading
    /\ force
    /\ IsSome(old_hot_update_list)
    /\ \E i \in DOMAIN hot_update_list :
          /\ Records(Val(old_hot_update_list), hot_update_list[i].name,
                     hot_update_list[i].hash)
          /\ attempts[hot_update_list[i].name] = 1

\* C5: in a call without a stored manifest each name of the manifest that
\* matches the allow pattern is downloaded exactly once and no other bundle
\* is downloaded
C5_FreshOnce ==
    (Downloading /\ ~IsSome(old_hot_update_list)) =>
        \A n \in BundleNames : attempts[n] = IF n \in Matching THEN 1 ELSE 0

\* C5 witness: a first sync with allow "*" of a manifest that lists one
\* bundle has downloaded it once
C5_Witness ==
    /\ pc = "done"
    /\ result = "returned"
    /\ ~IsSome(old_hot_update_list)
    /\ allow = <<"*">>
    /\ Len(hot_update_list) = 1
    /\ attempts[hot_update_list[1].name] = 1

\* every download of the call returned its data
Downloaded == Downloading /\ \A n \in Range(requested_names) : dl[n] = "ok"

\* every entry of the bundle was written by this call and is on disk
Persisted(bundle) ==
    \A i \in DOMAIN EntriesOf(bundle) :
        /\ <<bundle, i>> \in saved
        /\ get_file(EntriesOf(bundle)[i], server)
             = Some(json_dumps(TableOf(HashOf(hot_update_list, bundle))))

\* C6: a call whose downloads succeeded returns normally although the
\* unpacking or decoding of some bundle raised, and every other bundle of the
\* batch is unpacked with all of its entries persisted
C6_UnpackIsolated ==
    (pc = "done" /\ Downloaded) =>
        /\ result = "returned"
        /\ \A b \in Range(requested_names) :
              /\ b \in unpacked
              /\ failed_at[b] = -1 => Persisted(b)

\* C6 witness: a returned call in which one bundle raised and another bundle
\* that holds entries was persisted
C6_Witness ==
    /\ pc = "done"
    /\ result = "returned"
    /\ \E b \in unpacked : failed_at[b] >= 0
    /\ \E b \in unpacked : failed_at[b] = -1 /\ EntriesOf(b) # <<>> /\ Persisted(b)

\* C7 as claimed: after a call in which the decoding of an entry raised,
\* every other entry of the batch is persisted, also the entries that follow
\* the failing one in its bundle
C7_EveryOtherEntry ==
    (pc = "done" /\ result = "returned") =>
        \A b \in Range(requested_names) : \A i \in DOMAIN EntriesOf(b) :
            i # failed_at[b] => <<b, i>> \in saved

\* C7 amended: a decode failure does not abort the batch; of every bundle
\* exactly the entries before its first failing entry are persisted (all of
\* them when none fails), the entries after the failing one are not
C7_UpToFailure ==
    (pc = "done" /\ Downloaded) =>
        /\ result = "returned"
        /\ \A b \in Range(requested_names) : \A i \in DOMAIN EntriesOf(b) :
              <<b, i>> \in saved <=> (failed_at[b] = -1 \/ i < failed_at[b])

\* C7 witness: the second entry of a bundle failed, its first entry was persisted
C7_Witness ==
    /\ pc = "done"
    /\ result = "returned"
    /\ \E b \in unpacked : failed_at[b] = 2 /\ <<b, 1>> \in saved /\ <<b, 2>> \notin saved

\* C8 as claimed: a call that fetched its manifest returns normally, and the
\* bundles whose download did not fail are unpacked
C8_DownloadIsolated ==
    (pc = "done" /\ Downloading) =>
        /\ result = "returned"
        /\ \A n \in Range(requested_names) : dl[n] # "failed" => n \in unpacked

----------------------------------------------------------------------------
(* Properties of get_excel *)

\* C9 as claimed: an entry of the cache never changes and never disappears
C9_CacheImmutable ==
    [][\A srv \in DOMAIN excel_cache : \A path \in DOMAIN excel_cache[srv] :
          CacheEntry(excel_cache', srv, path) = Some(excel_cache[srv][path])]_vars

\* a step of get_excel
GetExcelStep == <<ge, excel_cache>>' # <<ge, excel_cache>>

\* C10 as claimed: get_excel reads the file on a miss, caches and returns the
\* parsed table; on a hit it reads no file and returns the cached table; when
\* the file does not exist it raises and leaves no entry for the table
C10_HitReadsNoFile ==
    [][GetExcelStep =>
        LET srv == ge'.server
            path == ExcelPath(ge'.name)
            before == CacheEntry(excel_cache, srv, path)
            after == CacheEntry(excel_cache', srv, path)
            file == get_file(path, srv)
        IN  /\ IsSome(before) =>
                 ~ge'.read /\ ~ge'.raised /\ ge'.ret = before /\ after = before
            /\ (~IsSome(before) /\ IsSome(file)) =>
                 /\ ge'.read /\ ~ge'.raised
                 /\ ge'.ret = Some(json_loads(Val(file)))
                 /\ after = ge'.ret
            /\ (~IsSome(before) /\ ~IsSome(file)) =>
                 ge'.read /\ ge'.raised /\ after = Nothing]_vars

----------------------------------------------------------------------------
(* The single calls: a caller makes one call at a time; call holds the     *)
(* arguments and the outcome of the call until the caller has taken them   *)

\* the caller takes the outcome of its call
Return ==
    /\ call # NoCall
    /\ call' = NoCall
    /\ UNCHANGED <<pc, server, allow, force, hot_update_list, old_hot_update_list,
                   outdated_names, requested_names, attempts, dl, unpacked,
                   failed_at, saved, result, loaded, UPDATED_FBS, stored, disk,
                   excel_cache, ge, authVars, runVars>>

----------------------------------------------------------------------------
(* Single-file resolution: guess_asset_path, unpack_assets, aget_file *)

\* DYNP = r"assets/torappu/dynamicassets/"
DYNP == <<"a", "s", "s", "e", "t", "s", "/", "t", "o", "r", "a", "p", "p", "u", "/", "d", "y", "n", "a", "m", "i", "c", "a", "s", "s", "e", "t", "s", "/">>

\* the characters that \w and [a-fA-F0-9] match, among those the model uses
WordChars ==
    {"a", "b", "c", "d", "e", "f", "g", "h", "i", "j", "k", "l", "m", "n", "o",
     "p", "q", "r", "s", "t", "u", "v", "w", "x", "y", "z", "_",
     "0", "1", "2", "3", "4", "5", "6", "7", "8", "9"}
HexChars ==
    {"a", "b", "c", "d", "e", "f", "A", "B", "C", "D", "E", "F",
     "0", "1", "2", "3", "4", "5", "6", "7", "8", "9"}

\* a regular expression is a sequence of items: a literal character, "."
\* (any character), "\w+" and ".+" (greedy), ".+?" (lazy),
\* "(?:[a-fA-F0-9]{6})?"
Lit(str) == [i \in DOMAIN str |-> [k |-> "lit", c |-> str[i]]]
AnyChar == [k |-> "any", c |-> ""]
WordRun == [k |-> "w+", c |-> ""]
GreedyRun == [k |-> ".+", c |-> ""]
LazyRun == [k |-> ".+?", c |-> ""]
OptHex6 == [k |-> "hex6?", c |-> ""]

Max(S) == CHOOSE x \in S : \A y \in S : y <= x
Min(S) == CHOOSE x \in S : \A y \in S : x <= y

\* the position after the match that the backtracking search of re finds
\* first for pattern pat in str from position i on, 0 when there is none:
\* a greedy item takes the longest run that lets the rest match, a lazy
\* item the shortest
RECURSIVE MatchEnd(_, _, _)
MatchEnd(pat, str, i) ==
    IF pat = <<>> THEN i
    ELSE LET h == Head(pat)
             rest == Tail(pat)
             runs(chars) == {j \in (i + 1)..(Len(str) + 1) :
                                /\ \A m \in i..(j - 1) : str[m] \in chars
                                /\ MatchEnd(rest, str, j) # 0}
             all == {str[m] : m \in DOMAIN str}
         IN  CASE h.k = "lit" ->
                    IF i <= Len(str) /\ str[i] = h.c
                    THEN MatchEnd(rest, str, i + 1) ELSE 0
               [] h.k = "any" ->
                    IF i <= Len(str) THEN MatchEnd(rest, str, i + 1) ELSE 0
               [] h.k = "w+" ->
                    IF runs(WordChars) = {} THEN 0
                    ELSE MatchEnd(rest, str, Max(runs(WordChars)))
               [] h.k = ".+" ->
                    IF runs(all) = {} THEN 0
                    ELSE MatchEnd(rest, str, Max(runs(all)))
               [] h.k = ".+?" ->
                    IF runs(all) = {} THEN 0
                    ELSE MatchEnd(rest, str, Min(runs(all)))
               [] h.k = "hex6?" ->
                    IF /\ i + 5 <= Len(str)
                       /\ \A m \in i..(i + 5) : str[m] \in HexChars
                       /\ MatchEnd(rest, str, i + 6) # 0
                    THEN MatchEnd(rest, str, i + 6)
                    ELSE MatchEnd(rest, str, i)

\* re.match(pat, str)[0]: the matched text, None when there is no match
re_match(pat, str) ==
    IF MatchEnd(pat, str, 1) = 0 THEN Nothing
    ELSE Some(SubSeq(str, 1, MatchEnd(pat, str, 1) - 1))

\* a string used as a regular expression: "." matches any character, the
\* other characters of the model's paths match themselves
AsPattern(str) ==
    [i \in DOMAIN str |-> IF str[i] = "." THEN AnyChar ELSE [k |-> "lit", c |-> str[i]]]

\* the names of abInfos that match a pattern, in manifest order
RECURSIVE MatchingNames(_, _)
MatchingNames(pat, abInfos) ==
    IF abInfos = <<>> THEN <<>>
    ELSE (IF IsSome(re_match(pat, Head(abInfos).name))
          THEN <<Head(abInfos).name>> ELSE <<>>)
         \o MatchingNames(pat, Tail(abInfos))

\* guess_asset_path(path, hot_update_list)
guess_asset_path(path, abInfos) ==
    LET match == re_match(Lit(<<"g", "a", "m", "e", "d", "a", "t", "a", "/">>) \o <<WordRun, AnyChar>> \o Lit(<<"j", "s", "o", "n">>), path)
        filename == Val(match)
    IN  IF ~IsSome(match) THEN <<>>
        ELSE MatchingNames(Lit(DYNP) \o AsPattern(filename) \o <<OptHex6>> \o Lit(<<".", "a", "b">>),
                           abInfos)

\* where the lazy ".+?" that starts at position i stops when rest follows it
LazyStop(str, i, rest) ==
    Min({j \in (i + 1)..(Len(str) + 1) : MatchEnd(rest, str, j) # 0})

\* one TextAsset of unpack_assets: the (output path, data) that the first
\* matching rule yields for the container, None when no rule matches; data
\* is the decoder the rule applies together with the script it is applied to
unpack_entry(container, script) ==
    LET g == Len(DYNP) + 1
        tail == Len(DYNP) + Len(<<"g", "a", "m", "e", "d", "a", "t", "a", "/">>) + 1
        gamedata == Lit(DYNP) \o Lit(<<"g", "a", "m", "e", "d", "a", "t", "a", "/">>)
        levels(dir) == Lit(DYNP) \o Lit(<<"g", "a", "m", "e", "d", "a", "t", "a", "/", "l", "e", "v", "e", "l", "s", "/">>) \o Lit(dir) \o Lit(<<"/">>)
        txt == MatchEnd(Lit(DYNP) \o <<GreedyRun>> \o Lit(<<".", "t", "x", "t">>), container, 1)
        json == MatchEnd(gamedata \o <<LazyRun>> \o Lit(<<".", "j", "s", "o", "n">>), container, 1)
        lua == MatchEnd(gamedata \o <<LazyRun>> \o Lit(<<".", "l", "u", "a", ".", "b", "y", "t", "e", "s">>), container, 1)
        level(dir) == MatchEnd(levels(dir) \o <<LazyRun>> \o Lit(<<".", "b", "y", "t", "e", "s">>), container, 1)
        bytes == MatchEnd(gamedata \o <<LazyRun, OptHex6>> \o Lit(<<".", "b", "y", "t", "e", "s">>), container, 1)
        group(end) == SubSeq(container, g, end - 1)
    IN  CASE txt # 0 -> Some(<<group(txt), <<"script", script>> >>)
          [] txt = 0 /\ json # 0 -> Some(<<group(json), <<"normalize_json", script>> >>)
          [] txt = 0 /\ json = 0 /\ lua # 0 ->
                Some(<<group(lua - Len(<<".", "l", "u", "a", ".", "b", "y", "t", "e", "s">>)) \o <<".", "l", "u", "a">>,
                       <<"decrypt_aes_text", script>> >>)
          [] txt = 0 /\ json = 0 /\ lua = 0
                /\ (level(<<"o", "b", "t">>) # 0 \/ level(<<"a", "c", "t", "i", "v", "i", "t", "i", "e", "s">>) # 0) ->
                Some(<<group((IF level(<<"o", "b", "t">>) # 0 THEN level(<<"o", "b", "t">>)
                              ELSE level(<<"a", "c", "t", "i", "v", "i", "t", "i", "e", "s">>)) - Len(<<".", "b", "y", "t", "e", "s">>)) \o <<".", "j", "s", "o", "n">>,
                       <<"levels", script>> >>)
          [] txt = 0 /\ json = 0 /\ lua = 0
                /\ level(<<"o", "b", "t">>) = 0 /\ level(<<"a", "c", "t", "i", "v", "i", "t", "i", "e", "s">>) = 0 /\ bytes # 0 ->
                Some(<<group(LazyStop(container, tail, <<OptHex6>> \o Lit(<<".", "b", "y", "t", "e", "s">>)))
                          \o <<".", "j", "s", "o", "n">>,
                       <<"decrypt_arknights_text", script>> >>)
          [] OTHER -> Nothing

\* a variant of unpack_assets that dispatches the objects of every type
RECURSIVE unpack_assets_any_type(_, _)
unpack_assets_any_type(asset, target_container) ==
    IF asset = <<>> THEN <<>>
    ELSE LET obj == Head(asset)
             skipped == target_container # <<>> /\ obj.container # target_container
             entry == unpack_entry(obj.container, obj.script)
         IN  (IF ~skipped /\ IsSome(entry) THEN <<Val(entry)>> ELSE <<>>)
             \o unpack_assets_any_type(Tail(asset), target_container)

\* unpack_assets(asset, target_container, server=server): the entries it
\* yields, in container order; asset is the sequence of its containers and
\* an empty target_container (None or "") selects every container
RECURSIVE unpack_assets(_, _)
unpack_assets(asset, target_container) ==
    IF asset = <<>> THEN <<>>
    ELSE LET obj == Head(asset)
             skipped == target_container # <<>> /\ obj.container # target_container
             entry == unpack_entry(obj.container, obj.script)
         IN  (IF ~skipped /\ obj.type = "TextAsset" /\ IsSome(entry)
              THEN <<Val(entry)>> ELSE <<>>)
             \o unpack_assets(Tail(asset), target_container)

\* the logical paths that callers ask aget_file for
P_EXCEL == <<"g", "a", "m", "e", "d", "a", "t", "a", "/", "e", "x", "c", "e", "l", "/", "t", "1", ".", "j", "s", "o", "n">>
P_FLAT == <<"g", "a", "m", "e", "d", "a", "t", "a", "/", "t", "1", ".", "j", "s", "o", "n">>
FilePaths == {P_EXCEL, P_FLAT, DYNP \o P_EXCEL}

\* bundle names of the manifests that aget_file fetches: the table bundle as
\* update_assets' default allow pattern "gamedata/excel/*" names it, the same
\* with the DYNP prefix, and a name that guess_asset_path selects for P_FLAT
N_EXCEL == <<"g", "a", "m", "e", "d", "a", "t", "a", "/", "e", "x", "c", "e", "l", "/", "t", "1", ".", "a", "b">>
N_FLAT == DYNP \o <<"g", "a", "m", "e", "d", "a", "t", "a", "/", "t", "1", ".", "j", "s", "o", "n", ".", "a", "b">>
FileBundleNames == {N_EXCEL, DYNP \o N_EXCEL, N_FLAT}

\* the manifests that aget_file receives: it reads the names only, so every
\* bundle has the same hash
FileManifests ==
    UNION { { m \in [1..n -> [name : FileBundleNames, hash : {0}]] :
                \A i, j \in 1..n : m[i].name = m[j].name => i = j }
            : n \in 0..MaxManifestLen }

\* load_unity_file(...).container of a bundle: each bundle holds the one
\* text asset of its table, whose container is DYNP + the logical path
AssetOf(info) ==
    <<[container |-> DYNP \o (IF info.name = N_FLAT THEN P_FLAT ELSE P_EXCEL),
       type |-> "TextAsset",
       script |-> json_dumps(TableOf(info.hash))]>>

\* the logical paths that a bundle's entries are unpacked to
Yields(info) == {e[1] : e \in Range(unpack_assets(AssetOf(info), <<>>))}

\* the loop of aget_file over the candidates: a candidate whose download or
\* load raises ends the call, the first entry yielded is the result
RECURSIVE TryCandidates(_, _, _, _)
TryCandidates(asset_paths, path, abInfos, broken) ==
    IF asset_paths = <<>>
    THEN [raised |-> "ValueError: File not found", found |-> Nothing]
    ELSE LET name == Head(asset_paths)
             info == CHOOSE x \in Range(abInfos) : x.name = name
             out == unpack_assets(AssetOf(info), path)
         IN  IF name \in broken
             THEN [raised |-> "ClientResponseError", found |-> Nothing]
             ELSE IF out # <<>>
             THEN [raised |-> "none", found |-> Some(Head(out))]
             ELSE TryCandidates(Tail(asset_paths), path, abInfos, broken)

\* aget_file(path, server=srvArg, save=save) when the manifest request
\* answers now and the downloads of the bundles in broken raise
aget_file(path, srvArg, save, now, broken) ==
    LET srv == IF srvArg = None THEN default_server ELSE srvArg
        asset_paths == guess_asset_path(path, now)
        out == IF asset_paths = <<>>
               THEN [raised |-> "ValueError: No viable asset path found", found |-> Nothing]
               ELSE TryCandidates(asset_paths, path, now, broken)
    IN  /\ call = NoCall
        /\ call' = [op |-> "aget_file", path |-> path, server |-> srv, save |-> save,
                    hot_update_list |-> now, broken |-> broken,
                    asset_paths |-> asset_paths, raised |-> out.raised,
                    ret |-> IF IsSome(out.found) THEN Some(Val(out.found)[2]) ELSE Nothing]
        /\ disk' = IF save /\ IsSome(out.found)
                   THEN Put(disk, srv, Put(FilesOf(srv), Val(out.found)[1], Val(out.found)[2]))
                   ELSE disk
        /\ UNCHANGED <<pc, server, allow, force, hot_update_list, old_hot_update_list,
                       outdated_names, requested_names, attempts, dl, unpacked,
                       failed_at, saved, result, loaded, UPDATED_FBS, stored,
                       excel_cache, ge, authVars, runVars>>

\* aget_file when _get_hot_update_list raises
aget_file_unreachable(path, srvArg, save) ==
    /\ call = NoCall
    /\ call' = [op |-> "aget_file", path |-> path,
                server |-> IF srvArg = None THEN default_server ELSE srvArg,
                save |-> save, hot_update_list |-> <<>>, broken |-> {},
                asset_paths |-> <<>>, raised |-> "ClientResponseError", ret |-> Nothing]
    /\ UNCHANGED <<pc, server, allow, force, hot_update_list, old_hot_update_list,
                   outdated_names, requested_names, attempts, dl, unpacked,
                   failed_at, saved, result, loaded, UPDATED_FBS, stored, disk,
                   excel_cache, ge, authVars, runVars>>

----------------------------------------------------------------------------
(* unzip_only_file *)

\* the most members an archive of the model has
MaxFiles == 2

\* zip archives: the members in directory order, each a file name and its bytes
Archives ==
    UNION { [1..n -> [filename : {"a", "b"}, data : {"x", "y"}]] : n \in 0..MaxFiles }

\* ZipFile.read(name): the bytes of the last member of that name
ZipRead(archive, name) ==
    archive[Max({i \in DOMAIN archive : archive[i].filename = name})].data

\* unzip_only_file(stream): archive.read(archive.namelist()[0]); indexing an
\* empty namelist raises IndexError
unzip_only_file(archive) ==
    /\ call = NoCall
    /\ call' = IF archive = <<>>
               THEN [op |-> "unzip_only_file", archive |-> archive,
                     raised |-> "IndexError", ret |-> Nothing]
               ELSE [op |-> "unzip_only_file", archive |-> archive,
                     raised |-> "none", ret |-> Some(ZipRead(archive, archive[1].filename))]
    /\ UNCHANGED <<pc, server, allow, force, hot_update_list, old_hot_update_list,
                   outdated_names, requested_names, attempts, dl, unpacked,
                   failed_at, saved, result, loaded, UPDATED_FBS, stored, disk,
                   excel_cache, ge, authVars, runVars>>

----------------------------------------------------------------------------
(* calculate_trust_level *)

\* the most frames a favor table of the model has
MaxFrames == 3

\* favor_point thresholds and trust values
FavorPoints == {0, 100, 500}
TrustValues == {0, 99, 100, 499, 500, 501}

\* favor_table["favor_frames"]: the game lists the frames by ascending
\* favor_point
FavorFrames ==
    UNION { { f \in [1..n -> [data : [favor_point : FavorPoints]]] :
                \A i, j \in 1..n : i <= j => f[i].data.favor_point <= f[j].data.favor_point }
            : n \in 0..MaxFrames }

\* bisect.bisect_right, the insertion point after equal entries
RECURSIVE bisect_right(_, _, _, _)
bisect_right(a, x, lo, hi) ==
    IF lo < hi
    THEN LET mid == (lo + hi) \div 2
         IN  IF x < a[mid + 1]
             THEN bisect_right(a, x, lo, mid)
             ELSE bisect_right(a, x, mid + 1, hi)
    ELSE lo

\* bisect.bisect_left(a, x, lo, hi) on a 0-indexed list: a[mid] of the code
\* is a[mid + 1] of the sequence
RECURSIVE bisect_left(_, _, _, _)
bisect_left(a, x, lo, hi) ==
    IF lo < hi
    THEN LET mid == (lo + hi) \div 2
         IN  IF a[mid + 1] < x
             THEN bisect_left(a, x, mid + 1, hi)
             ELSE bisect_left(a, x, lo, mid)
    ELSE lo

\* the favor_point of every frame but the first
KeyFramesAfterFirst(frames) ==
    [i \in 1..(Len(frames) - 1) |-> frames[i + 1].data.favor_point]

\* key_frames = [frame["data"]["favor_point"] for frame in frames]
KeyFrames(frames) == [i \in DOMAIN frames |-> frames[i].data.favor_point]

\* calculate_trust_level(trust) when favor_table holds frames
calculate_trust_level(frames, trust) ==
    /\ call = NoCall
    /\ call' = [op |-> "calculate_trust_level", frames |-> frames, trust |-> trust,
                ret |-> bisect_left(KeyFrames(frames), trust, 0, Len(KeyFrames(frames)))]
    /\ UNCHANGED <<pc, server, allow, force, hot_update_list, old_hot_update_list,
                   outdated_names, requested_names, attempts, dl, unpacked,
                   failed_at, saved, result, loaded, UPDATED_FBS, stored, disk,
                   excel_cache, ge, authVars, runVars>>

----------------------------------------------------------------------------
(* DDict *)

\* the longest key of the model
MaxKeyLen == 3

\* keys are strings over a lower-case letter, its upper case and "_"
KeyChars == {"a", "A", "_"}
Keys == UNION { [1..n -> KeyChars] : n \in 1..MaxKeyLen }

\* the keys that stand next to another key in a dict
SecondKeys == UNION { [1..n -> KeyChars] : n \in 1..2 }

\* the dicts that a DDict wraps: at most two keys, every value names its key
DDicts ==
    {[k \in {k1, k2} |-> <<"value of", k>>] : k1 \in Keys, k2 \in SecondKeys} \cup
    {[k \in {k1} |-> <<"value of", k>>] : k1 \in Keys} \cup {EmptyDict}

\* str.upper, str.lower and str.isalpha on one character
Upper(c) == IF c = "a" THEN "A" ELSE c
Lower(c) == IF c = "A" THEN "a" ELSE c
IsAlpha(c) == c \in {"a", "A"}

\* string.split("_"): the pieces between the underscores, empty ones included
RECURSIVE Split(_)
Split(string) ==
    IF \A i \in DOMAIN string : string[i] # "_" THEN <<string>>
    ELSE LET at == Min({i \in DOMAIN string : string[i] = "_"})
         IN  <<SubSeq(string, 1, at - 1)>> \o Split(SubSeq(string, at + 1, Len(string)))

\* str.title: a letter is upper-cased at the start and after a character
\* that is no letter, lower-cased after a letter
Title(x) ==
    [i \in DOMAIN x |-> IF i = 1 \/ ~IsAlpha(x[i - 1]) THEN Upper(x[i]) ELSE Lower(x[i])]

\* "".join
RECURSIVE Join(_)
Join(pieces) == IF pieces = <<>> THEN <<>> ELSE Head(pieces) \o Join(Tail(pieces))

\* a conversion that leaves the key as it is
to_camel_case_unchanged(string) == string

\* _to_camel_case(string)
to_camel_case(string) ==
    Join([i \in DOMAIN Split(string) |->
            IF i = 1 THEN Split(string)[i] ELSE Title(Split(string)[i])])

\* DDict.__getitem__(key) and, with attr, DDict.__getattr__(key): the item of
\* the exact key, else the item of the converted key, else KeyError, which
\* __getattr__ turns into AttributeError
DDict_lookup(d, key, attr) ==
    /\ call = NoCall
    /\ call' = [op |-> IF attr THEN "__getattr__" ELSE "__getitem__",
                d |-> d, key |-> key,
                raised |-> IF key \in DOMAIN d \/ to_camel_case(key) \in DOMAIN d THEN "none"
                           ELSE IF attr THEN "AttributeError" ELSE "KeyError",
                ret |-> IF key \in DOMAIN d THEN Some(d[key])
                        ELSE IF to_camel_case(key) \in DOMAIN d
                        THEN Some(d[to_camel_case(key)])
                        ELSE Nothing]
    /\ UNCHANGED <<pc, server, allow, force, hot_update_list, old_hot_update_list,
                   outdated_names, requested_names, attempts, dl, unpacked,
                   failed_at, saved, result, loaded, UPDATED_FBS, stored, disk,
                   excel_cache, ge, authVars, runVars>>

----------------------------------------------------------------------------
(* recursively_collapse_keys *)

\* JSON values are nested at most MaxJsonDepth deep and arrays hold at most
\* MaxItems items
MaxJsonDepth == 2
MaxItems == 2

\* a JSON value is tagged with its Python type: str (s a string), list
\* (items a sequence of values) or dict (fields a function from keys to values)
JsonStrings == {"key", "value"}
Str(s) == [t |-> "str", s |-> s]
List(items) == [t |-> "list", items |-> items]
Dict(f) == [t |-> "dict", fields |-> f]

RECURSIVE JsonValues(_)
JsonValues(depth) ==
    {Str(s) : s \in JsonStrings} \cup
    (IF depth = 0 THEN {}
     ELSE {List(items) : items \in UNION {[1..n -> JsonValues(depth - 1)] : n \in 0..MaxItems}}
          \cup {Dict(f) : f \in UNION {[D -> JsonValues(depth - 1)] : D \in SUBSET JsonStrings}})

\* the arguments of the calls: the values of that depth, and each of them
\* as the only item of an array
JsonInputs(depth) ==
    JsonValues(depth) \cup {List(<<x>>) : x \in JsonValues(depth)}

\* the exception of the dict comprehension for a key that is a list or a
\* dict (unhashable type)
TypeError == [t |-> "TypeError"]

\* isinstance(item, dict) and item.keys() == {"key", "value"}
IsKeyValue(item) == item.t = "dict" /\ DOMAIN item.fields = {"key", "value"}

\* recursively_collapse_keys(obj); of the items of one key the last wins
RECURSIVE recursively_collapse_keys(_)
recursively_collapse_keys(obj) ==
    IF obj.t = "list"
    THEN IF \A i \in DOMAIN obj.items : IsKeyValue(obj.items[i])
         THEN LET key(i) == obj.items[i].fields["key"]
                  value(i) == obj.items[i].fields["value"]
                  keys == {key(i).s : i \in DOMAIN obj.items}
                  last(k) == Max({i \in DOMAIN obj.items : key(i).s = k})
                  collapsed == [k \in keys |-> recursively_collapse_keys(value(last(k)))]
              IN  IF \E i \in DOMAIN obj.items : key(i).t # "str" THEN TypeError
                  ELSE IF \E k \in keys : collapsed[k].t = "TypeError" THEN TypeError
                  ELSE Dict(collapsed)
         ELSE LET items == [i \in DOMAIN obj.items |-> recursively_collapse_keys(obj.items[i])]
              IN  IF \E i \in DOMAIN items : items[i].t = "TypeError" THEN TypeError
                  ELSE List(items)
    ELSE IF obj.t = "dict"
    THEN LET values == [k \in DOMAIN obj.fields |-> recursively_collapse_keys(obj.fields[k])]
         IN  IF \E k \in DOMAIN values : values[k].t = "TypeError" THEN TypeError
             ELSE Dict(values)
    ELSE obj

\* a call recursively_collapse_keys(obj)
collapse_keys(obj) ==
    /\ call = NoCall
    /\ call' = [op |-> "recursively_collapse_keys", obj |-> obj,
                ret |-> recursively_collapse_keys(obj)]
    /\ UNCHANGED <<pc, server, allow, force, hot_update_list, old_hot_update_list,
                   outdated_names, requested_names, attempts, dl, unpacked,
                   failed_at, saved, result, loaded, UPDATED_FBS, stored, disk,
                   excel_cache, ge, authVars, runVars>>

NextCollapse ==
    \/ /\ call = NoCall
       /\ \E obj \in JsonInputs(MaxJsonDepth) : collapse_keys(obj)
    \/ Return

SpecCollapse == Init /\ [][NextCollapse]_vars

----------------------------------------------------------------------------
(* unpack_assets with its decoders: normalize_json, load_json_or_bson *)

\* what a payload is once a 128-byte header, if any, is left out: JSON text,
\* text that is not JSON, a BSON document, or a flatbuffer, which bson.loads
\* rejects with UnboundLocalError
Payloads == {"json", "text", "bson", "fbs"}

\* data.script of a TextAsset: the payload, behind a 128-byte header or not
Script(header, body) == [header |-> header, body |-> body]

\* data[128:]: a script without a header loses the start of its payload,
\* and what is left of JSON text is not JSON
Skip128(data) ==
    IF data.header THEN Script(FALSE, data.body) ELSE Script(FALSE, "text")

\* b"\x00" in data[:256]
HasNul(data) == data.header \/ data.body \in {"bson", "fbs"}

\* load_json_or_bson(data): the parsed document or the exception raised
load_json_or_bson(data) ==
    IF HasNul(data)
    THEN IF ~data.header /\ data.body = "bson"
         THEN [raised |-> "none", value |-> <<"parsed", data.body>>]
         ELSE [raised |-> "UnboundLocalError", value |-> <<>>]
    ELSE IF data.body = "json"
         THEN [raised |-> "none", value |-> <<"parsed", data.body>>]
         ELSE [raised |-> "JSONDecodeError", value |-> <<>>]

\* normalize_json(data, lenient=lenient)
normalize_json(data, lenient) ==
    IF lenient /\ ~HasNul(data)
    THEN [raised |-> "none", value |-> <<"as is", data>>]
    ELSE IF load_json_or_bson(data).raised # "none"
         THEN load_json_or_bson(data)
         ELSE [raised |-> "none", value |-> <<"json.dumps", load_json_or_bson(data).value>>]

\* a variant of the levels rule that falls back on every exception
decode_level_catch_all(script, normalize) ==
    IF normalize_json(Skip128(script), ~normalize).raised # "none"
    THEN [raised |-> "none",
          value |-> <<"decrypt_fbs_file", "prts___levels", Skip128(script)>>]
    ELSE normalize_json(Skip128(script), ~normalize)

\* the levels rule: normalize_json(bytes(data.script)[128:]), and
\* decrypt_fbs_file(data.script, "prts___levels") (which skips the header
\* itself) when that raises UnboundLocalError
decode_level(script, normalize) ==
    IF normalize_json(Skip128(script), ~normalize).raised = "UnboundLocalError"
    THEN [raised |-> "none",
          value |-> <<"decrypt_fbs_file", "prts___levels", Skip128(script)>>]
    ELSE normalize_json(Skip128(script), ~normalize)

\* the data that a rule computes for the entry it matched; the decryption
\* rules are not followed further
decode(entry, normalize) ==
    CASE entry[1] = "script" -> [raised |-> "none", value |-> <<"as is", entry[2]>>]
      [] entry[1] = "normalize_json" -> normalize_json(entry[2], ~normalize)
      [] entry[1] = "levels" -> decode_level(entry[2], normalize)
      [] OTHER -> [raised |-> "none", value |-> entry]

\* the generator that unpack_assets(asset, None, server=server,
\* normalize=normalize) returns, consumed to its end: the entries yielded
\* before the first exception, and that exception
RECURSIVE unpack_decoded(_, _)
unpack_decoded(entries, normalize) ==
    IF entries = <<>> THEN [raised |-> "none", yielded |-> <<>>]
    ELSE LET data == decode(Head(entries)[2], normalize)
             rest == unpack_decoded(Tail(entries), normalize)
         IN  IF data.raised # "none"
             THEN [raised |-> data.raised, yielded |-> <<>>]
             ELSE [raised |-> rest.raised,
                   yielded |-> <<[path |-> Head(entries)[1], by |-> Head(entries)[2][1],
                                  data |-> data.value]>> \o rest.yielded]

\* an asset holds at most MaxObjects objects
MaxObjects == 2

\* containers of the objects: for every rule one that only it matches or
\* that later rules match too, and containers that no rule matches
C_TXT_JSON == DYNP \o <<"g", "a", "m", "e", "d", "a", "t", "a", "/", "a", ".", "t", "x", "t", ".", "j", "s", "o", "n">>
C_JSON == DYNP \o <<"g", "a", "m", "e", "d", "a", "t", "a", "/", "a", ".", "j", "s", "o", "n">>
C_ROOT_JSON == DYNP \o <<"a", ".", "j", "s", "o", "n">>
Containers ==
    {DYNP \o <<"a", ".", "t", "x", "t">>,
     C_TXT_JSON,
     C_JSON,
     DYNP \o <<"g", "a", "m", "e", "d", "a", "t", "a", "/", "a", ".", "j", "s", "o", "n", ".", "b", "y", "t", "e", "s">>,
     DYNP \o <<"g", "a", "m", "e", "d", "a", "t", "a", "/", "a", ".", "l", "u", "a", ".", "b", "y", "t", "e", "s">>,
     DYNP \o <<"g", "a", "m", "e", "d", "a", "t", "a", "/", "l", "e", "v", "e", "l", "s", "/", "o", "b", "t", "/", "m", ".", "l", "u", "a", ".", "b", "y", "t", "e", "s">>,
     DYNP \o <<"g", "a", "m", "e", "d", "a", "t", "a", "/", "l", "e", "v", "e", "l", "s", "/", "o", "b", "t", "/", "m", ".", "b", "y", "t", "e", "s">>,
     DYNP \o <<"g", "a", "m", "e", "d", "a", "t", "a", "/", "l", "e", "v", "e", "l", "s", "/", "a", "c", "t", "i", "v", "i", "t", "i", "e", "s", "/", "m", ".", "b", "y", "t", "e", "s">>,
     DYNP \o <<"g", "a", "m", "e", "d", "a", "t", "a", "/", "l", "e", "v", "e", "l", "s", "/", "x", "/", "m", ".", "b", "y", "t", "e", "s">>,
     DYNP \o <<"g", "a", "m", "e", "d", "a", "t", "a", "/", "t", "0", "a", "1", "b", "2", "c", ".", "b", "y", "t", "e", "s">>,
     DYNP \o <<"g", "a", "m", "e", "d", "a", "t", "a", "/", "a", ".", "p", "n", "g">>,
     C_ROOT_JSON,
     <<"g", "a", "m", "e", "d", "a", "t", "a", "/", "a", ".", "j", "s", "o", "n">>}

\* obj.type.name
ObjectTypes == {"TextAsset", "Texture2D"}

\* the encrypted payloads (*.bytes) come behind a 128-byte header
HasHeader(container) ==
    Len(container) > 6 /\
    SubSeq(container, Len(container) - 5, Len(container)) = <<".", "b", "y", "t", "e", "s">>

\* the objects of an asset; those of the longer assets hold JSON text
Objects ==
    {[container |-> c, type |-> t, script |-> Script(HasHeader(c), b)] :
        c \in Containers, t \in ObjectTypes, b \in Payloads}
PlainObjects ==
    {o \in Objects : o.script.body = "json" /\ (o.type = "TextAsset" \/ o.container = C_JSON)}
UnityAssets ==
    {<<o>> : o \in Objects} \cup UNION {[1..n -> PlainObjects] : n \in 0..MaxObjects}

\* list(unpack_assets(asset, server=server, normalize=normalize))
unpack_all(asset, normalize) ==
    /\ call = NoCall
    /\ call' = [op |-> "unpack_assets", asset |-> asset, normalize |-> normalize,
                raised |-> unpack_decoded(unpack_assets(asset, <<>>), normalize).raised,
                yielded |-> unpack_decoded(unpack_assets(asset, <<>>), normalize).yielded]
    /\ UNCHANGED <<pc, server, allow, force, hot_update_list, old_hot_update_list,
                   outdated_names, requested_names, attempts, dl, unpacked,
                   failed_at, saved, result, loaded, UPDATED_FBS, stored, disk,
                   excel_cache, ge, authVars, runVars>>

----------------------------------------------------------------------------
(* decrypt_aes_text *)

\* the block size of the cipher in bytes: 2 stands for the 16 of AES, so
\* that a buffer of two blocks holds padding lengths within a block,
\* beyond a block and beyond the buffer
BlockSize == 2

\* the decrypted buffers hold at most MaxBlocks blocks of bytes 0..MaxByte
MaxBlocks == 2
MaxByte == 5

\* aes.decrypt(data[16:]): whole blocks of any bytes, since every block is
\* the decryption of some block
DecryptedBuffers(n) ==
    UNION {[1..(k * BlockSize) -> 0..MaxByte] : k \in 0..n}

\* decrypted_padded[: -decrypted_padded[-1]] with Python's slices: -0 is 0,
\* and a stop before the start gives the empty bytes
TrimPadding(decrypted_padded) ==
    LET last == decrypted_padded[Len(decrypted_padded)]
    IN  IF last = 0 \/ last >= Len(decrypted_padded) THEN <<>>
        ELSE SubSeq(decrypted_padded, 1, Len(decrypted_padded) - last)

\* decrypt_aes_text(data), from the decrypted buffer on
decrypt_aes_text(decrypted_padded) ==
    /\ call = NoCall
    /\ call' = [op |-> "decrypt_aes_text", buffer |-> decrypted_padded,
                raised |-> IF decrypted_padded = <<>> THEN "IndexError" ELSE "none",
                ret |-> IF decrypted_padded = <<>> THEN Nothing
                        ELSE Some(TrimPadding(decrypted_padded))]
    /\ UNCHANGED <<pc, server, allow, force, hot_update_list, old_hot_update_list,
                   outdated_names, requested_names, attempts, dl, unpacked,
                   failed_at, saved, result, loaded, UPDATED_FBS, stored, disk,
                   excel_cache, ge, authVars, runVars>>

----------------------------------------------------------------------------
(* Specification of the single calls *)

\* the inputs of a call are enumerated only when a call can be made
NextCalls ==
    \/ /\ call = NoCall
       /\ \E path \in FilePaths, srvArg \in Servers \cup {None}, save \in BOOLEAN,
             now \in FileManifests :
             \E broken \in SUBSET Range(NamesOf(now)) :
                aget_file(path, srvArg, save, now, broken)
    \/ /\ call = NoCall
       /\ \E path \in FilePaths, srvArg \in Servers \cup {None}, save \in BOOLEAN :
             aget_file_unreachable(path, srvArg, save)
    \/ /\ call = NoCall
       /\ \E archive \in Archives : unzip_only_file(archive)
    \/ /\ call = NoCall
       /\ \E frames \in FavorFrames, trust \in TrustValues :
             calculate_trust_level(frames, trust)
    \/ /\ call = NoCall
       /\ \E d \in DDicts, key \in Keys, attr \in BOOLEAN : DDict_lookup(d, key, attr)
    \/ /\ call = NoCall
       /\ \E asset \in UnityAssets, normalize \in BOOLEAN : unpack_all(asset, normalize)
    \/ /\ call = NoCall
       /\ \E buffer \in DecryptedBuffers(MaxBlocks) : decrypt_aes_text(buffer)
    \/ Return

SpecCalls == Init /\ [][NextCalls]_vars

----------------------------------------------------------------------------
(* Properties of the single calls *)

\* the bundles of a manifest that hold the entry of a logical path, in
\* manifest order
Holders(abInfos, path) == SelectSeq(abInfos, LAMBDA info : path \in Yields(info))

\* C11 as claimed: when the fetched manifest lists a bundle that holds the
\* requested path (a table path gamedata/excel/<name>.json in particular)
\* and no request fails, aget_file returns the decoded bytes of the first
\* such bundle and, when saving, persists them under <root>/<server>/<path>
C11_ResolvesListed ==
    (/\ call.op = "aget_file"
     /\ call.raised # "ClientResponseError"
     /\ Holders(call.hot_update_list, call.path) # <<>>)
    => LET info == Head(Holders(call.hot_update_list, call.path))
           data == Val(unpack_entry(AssetOf(info)[1].container, AssetOf(info)[1].script))[2]
       IN  /\ call.raised = "none"
           /\ call.ret = Some(data)
           /\ call.save => get_file(call.path, call.server) = Some(data)

\* C12 as claimed: unzip_only_file returns the bytes of the single file of
\* the archive and raises whenever the archive holds no file or several
C12_OnlyFile ==
    call.op = "unzip_only_file" =>
        IF Len(call.archive) = 1
        THEN call.raised = "none" /\ call.ret = Some(call.archive[1].data)
        ELSE call.raised # "none" /\ call.ret = Nothing

\* the favor_point thresholds of the favor table that the call read
Thresholds == [i \in DOMAIN call.frames |-> call.frames[i].data.favor_point]

\* a calculate_trust_level call on the thresholds [0, 100, 500]
TrustCallOn(trust) ==
    /\ call.op = "calculate_trust_level"
    /\ Thresholds = <<0, 100, 500>>
    /\ call.trust = trust

\* C13 as claimed: on the thresholds [0, 100, 500], calculate_trust_level
\* returns 0 for trust 0, 1 for trust 99 and 3 for trust 500
C13_ExampleAsClaimed ==
    /\ TrustCallOn(0) => call.ret = 0
    /\ TrustCallOn(99) => call.ret = 1
    /\ TrustCallOn(500) => call.ret = 3

\* C13 amended: on the thresholds [0, 100, 500], calculate_trust_level
\* returns 0 for trust 0, 1 for trust 99 and 2 for trust 500 (two thresholds
\* are smaller than 500)
C13_Example ==
    /\ TrustCallOn(0) => call.ret = 0
    /\ TrustCallOn(99) => call.ret = 1
    /\ TrustCallOn(500) => call.ret = 2

C13_Witness == TrustCallOn(500) /\ call.ret = 2

\* C14: for ascending thresholds calculate_trust_level returns the leftmost
\* insertion index of trust: it is the number of thresholds smaller than
\* trust, the thresholds before it are smaller than trust and those from it
\* on are at least trust
C14_LeftmostInsertion ==
    call.op = "calculate_trust_level" =>
        LET a == Thresholds
        IN  /\ call.ret \in 0..Len(a)
            /\ call.ret = Cardinality({i \in DOMAIN a : a[i] < call.trust})
            /\ \A i \in DOMAIN a : i <= call.ret => a[i] < call.trust
            /\ \A i \in DOMAIN a : i > call.ret => a[i] >= call.trust

\* a trust value between two consecutive thresholds maps to the index of
\* the upper one
C14_Witness ==
    /\ call.op = "calculate_trust_level"
    /\ \E i \in 1..(Len(call.frames) - 1) :
          /\ Thresholds[i] < call.trust
          /\ call.trust < Thresholds[i + 1]
          /\ call.ret = i

\* a DDict lookup, by item or by attribute
DDictCall == call.op \in {"__getitem__", "__getattr__"}

\* snake_case keys: lower-case words joined by single underscores;
\* camelCase keys: no underscore, a lower-case first letter
IsSnake(key) ==
    /\ \A i \in DOMAIN key : key[i] = "_" \/ key[i] = Lower(key[i])
    /\ key[1] # "_" /\ key[Len(key)] # "_"
    /\ \A i \in 1..(Len(key) - 1) : ~(key[i] = "_" /\ key[i + 1] = "_")
IsCamel(key) ==
    /\ \A i \in DOMAIN key : key[i] # "_"
    /\ key[1] = Lower(key[1])

\* the snake_case key that corresponds to a camelCase key: every upper-case
\* letter becomes "_" and its lower case
RECURSIVE SnakeOf(_)
SnakeOf(key) ==
    IF key = <<>> THEN <<>>
    ELSE (IF Head(key) # Lower(Head(key)) THEN <<"_", Lower(Head(key))>> ELSE <<Head(key)>>)
         \o SnakeOf(Tail(key))

\* the stored camelCase keys that correspond to the snake_case key looked up
StoredCamels == {c \in DOMAIN call.d : IsCamel(c) /\ SnakeOf(c) = call.key}

\* what C19 and its amendment share: an exact key finds its value, a
\* snake_case key finds the value stored under the corresponding camelCase
\* key, a failure is a KeyError (item access) or an AttributeError
\* (attribute access)
DDictCommon ==
    /\ call.key \in DOMAIN call.d =>
          call.raised = "none" /\ call.ret = Some(call.d[call.key])
    /\ (call.key \notin DOMAIN call.d /\ IsSnake(call.key) /\ StoredCamels # {}) =>
          call.raised = "none" /\ \E c \in StoredCamels : call.ret = Some(call.d[c])
    /\ call.raised # "none" =>
          /\ call.raised = IF call.op = "__getattr__" THEN "AttributeError" ELSE "KeyError"
          /\ call.ret = Nothing

\* C19 as claimed: the retry converts in both directions, so a camelCase
\* key also finds the value stored under the corresponding snake_case key,
\* and the lookup fails only if the exact and the converted keys are absent
C19_BothDirections ==
    DDictCall =>
        /\ DDictCommon
        /\ (call.key \notin DOMAIN call.d /\ IsCamel(call.key)
               /\ SnakeOf(call.key) \in DOMAIN call.d) =>
              call.raised = "none" /\ call.ret = Some(call.d[SnakeOf(call.key)])

\* C19 amended: the retry converts snake_case to camelCase only; a key
\* without underscore that is not stored fails, also when the
\* corresponding snake_case key is stored; a snake_case key fails only if
\* neither it nor the corresponding camelCase key is stored
C19_SnakeToCamelOnly ==
    DDictCall =>
        /\ DDictCommon
        /\ (call.key \notin DOMAIN call.d /\ IsCamel(call.key)) => call.raised # "none"
        /\ (IsSnake(call.key) /\ call.raised # "none") =>
              call.key \notin DOMAIN call.d /\ StoredCamels = {}

\* a snake_case key found the value stored under its camelCase key
C19_Witness ==
    /\ DDictCall
    /\ IsSnake(call.key) /\ call.key \notin DOMAIN call.d
    /\ \E c \in StoredCamels : c # call.key /\ call.ret = Some(call.d[c])

\* a JSON value that contains an array of {key, value} objects: a
\* non-empty array whose items all are objects with exactly these two keys
RECURSIVE HasKeyValueArray(_)
HasKeyValueArray(obj) ==
    IF obj.t = "list"
    THEN \/ obj.items # <<>> /\ \A i \in DOMAIN obj.items : IsKeyValue(obj.items[i])
         \/ \E i \in DOMAIN obj.items : HasKeyValueArray(obj.items[i])
    ELSE IF obj.t = "dict" THEN \E k \in DOMAIN obj.fields : HasKeyValueArray(obj.fields[k])
    ELSE FALSE

\* C20 as claimed: recursively_collapse_keys is idempotent, collapsing its
\* result again changes nothing, and it returns an input that contains no
\* array of {key, value} objects unchanged
C20_IdempotentNoOp ==
    (call.op = "recursively_collapse_keys" /\ call.ret.t # "TypeError") =>
        /\ recursively_collapse_keys(call.ret) = call.ret
        /\ ~HasKeyValueArray(call.obj) => call.ret = call.obj

----------------------------------------------------------------------------
(* Authentication clients: AuthSession, Auth.auth_request and               *)
(* MultiAuth.auth_request (GuestAuth creates the sessions).  A step of a    *)
(* coroutine runs from one await that suspends it to the next.              *)

\* the largest max_sessions a MultiAuth of the model is built with, the most
\* auth_request calls it receives, and the seqnum up to which the
\* single-session client is followed
MaxSessionsLimit == 2
MaxCalls == 5
MaxSeqnum == 3

\* the session that a caller's sess names: 0 is Auth.session, i > 0 is
\* MultiAuth.sessions[i - 1] of the code
Sess(i) == IF i = 0 THEN session ELSE sessions[i]

\* the session that sess names becomes s
SetSession(i, s) ==
    /\ session' = IF i = 0 THEN s ELSE session
    /\ sessions' = IF i = 0 THEN sessions ELSE [sessions EXCEPT ![i] = s]

\* a lock that every caller passes
CanAcquireAlways(s) == TRUE

\* asyncio.Lock.acquire returns without suspending: the lock is free and
\* nobody waits for it
CanAcquire(s) == ~s.locked /\ s.waiters = <<>>

\* a sequence number that stays as it is
SameSeqnum(s) == s.seqnum

\* self.seqnum += 1
NextSeqnum(s) == s.seqnum + 1

\* AuthSession.__aenter__ once the lock is taken, and the request that is
\* sent with the headers it returns
Enter(s) ==
    [s EXCEPT !.locked = TRUE, !.seqnum = NextSeqnum(s),
              !.sent = Append(@, [endpoint |-> "request", seqnum |-> NextSeqnum(s)])]

\* AuthSession.__aexit__: lock.release()
Release(s) == [s EXCEPT !.locked = FALSE]

\* the session of a client that has logged in: _get_u8_token sets uid,
\* _get_secret sends account/login with the header seqnum "1" and sets secret
LoggedIn(s) ==
    [s EXCEPT !.uid = "uid", !.secret = "secret",
              !.sent = Append(@, [endpoint |-> "account/login", seqnum |-> 1])]

\* "async with session" of caller c on the session that i names
AsyncWith(c, i, srv, client) ==
    IF CanAcquire(Sess(i))
    THEN /\ SetSession(i, Enter(Sess(i)))
         /\ task' = [task EXCEPT ![c] = [pc |-> "request", client |-> client,
                                         server |-> srv, sess |-> i]]
    ELSE /\ SetSession(i, [Sess(i) EXCEPT !.waiters = Append(@, c)])
         /\ task' = [task EXCEPT ![c] = [pc |-> "acquire", client |-> client,
                                         server |-> srv, sess |-> i]]

\* a session search that finds nothing
get_no_session(srv) == -1

\* MultiAuth._get_free_session(server): the first session of the server
\* whose lock is not locked, -1 for None
get_free_session(srv) ==
    IF \E i \in DOMAIN sessions : sessions[i].server = srv /\ ~sessions[i].locked
    THEN Min({i \in DOMAIN sessions : sessions[i].server = srv /\ ~sessions[i].locked})
    ELSE -1

\* sum(session.server == server for session in self.sessions)
SessionsOf(srv) == Cardinality({i \in DOMAIN sessions : sessions[i].server = srv})

\* the client-side variables of the asset pipeline, which no step of the
\* authentication clients touches
assetVars == <<pc, server, allow, force, hot_update_list, old_hot_update_list,
               outdated_names, requested_names, attempts, dl, unpacked, failed_at,
               saved, result, loaded, UPDATED_FBS, stored, disk, excel_cache, ge>>

\* The two clients are separate objects that share no state, so a behaviour
\* follows one of them: the single-session client logs in only while the
\* MultiAuth has received no call, and the MultiAuth is called only while the
\* single-session client has not logged in.
MultiAuthUnused == calls = <<>>
AuthUnused == session.uid = ""

\* the single-session client logs in (login_with_token and its variants);
\* its callers await the login before they send requests
login_with_token ==
    /\ session.uid = ""
    /\ MultiAuthUnused
    /\ session' = LoggedIn(session)
    /\ UNCHANGED <<max_sessions, sessions, task, calls, callVars, assetVars, runVars>>

\* Auth.auth_request(endpoint, server=srvArg) up to its first suspension
auth_request(c, srvArg) ==
    /\ task[c].pc = "idle"
    /\ session.seqnum < MaxSeqnum
    /\ IF (srvArg # None /\ srvArg # session.server) \/ session.uid = ""
       THEN UNCHANGED <<session, sessions, task>>  \* ValueError, NotLoggedInError
       ELSE AsyncWith(c, 0, session.server, "Auth")
    /\ UNCHANGED <<max_sessions, calls, callVars, assetVars, runVars>>

\* another auth_request of the MultiAuth is running
Overlaps(c) == \E d \in Callers \ {c} : task[d].client = "MultiAuth"

\* MultiAuth.auth_request(endpoint, server=srvArg) up to its first suspension
multi_auth_request(c, srvArg) ==
    LET srv == IF srvArg = None THEN default_server ELSE srvArg
        free == get_free_session(srv)
    IN  /\ task[c].pc = "idle"
        /\ AuthUnused
        /\ Len(calls) < MaxCalls
        /\ calls' = Append(calls, [event |-> "call", server |-> srv, overlaps |-> Overlaps(c)])
        /\ IF free # -1
           THEN AsyncWith(c, free, srv, "MultiAuth")
           ELSE /\ task' = [task EXCEPT ![c] =
                              [pc |-> IF SessionsOf(srv) >= max_sessions THEN "wait" ELSE "create",
                               client |-> "MultiAuth", server |-> srv, sess |-> -1]]
                /\ UNCHANGED <<session, sessions>>
        /\ UNCHANGED <<max_sessions, callVars, assetVars, runVars>>

\* _wait_for_free_session: a sleep ends and finds a free session
wait_for_free_session(c) ==
    /\ task[c].pc = "wait"
    /\ get_free_session(task[c].server) # -1
    /\ AsyncWith(c, get_free_session(task[c].server), task[c].server, "MultiAuth")
    /\ UNCHANGED <<max_sessions, calls, callVars, assetVars, runVars>>

\* _create_new_session returns the session of a logged-in guest account:
\* it is appended and entered at once
create_new_session(c) ==
    /\ task[c].pc = "create"
    /\ sessions' = Append(sessions, Enter(LoggedIn(AuthSession(task[c].server, ""))))
    /\ task' = [task EXCEPT ![c] = [pc |-> "request", client |-> "MultiAuth",
                                    server |-> task[c].server, sess |-> Len(sessions) + 1]]
    /\ UNCHANGED <<max_sessions, session, calls, callVars, assetVars, runVars>>

\* _create_new_session raises: the login of the guest account failed
create_new_session_fails(c) ==
    /\ task[c].pc = "create"
    /\ task' = [task EXCEPT ![c] = IdleTask]
    /\ calls' = Append(calls, [event |-> "failed", server |-> task[c].server, overlaps |-> FALSE])
    /\ UNCHANGED <<max_sessions, session, sessions, callVars, assetVars, runVars>>

\* lock.acquire resumes: the first waiter of a released lock takes it
acquire_woken(c) ==
    /\ task[c].pc = "acquire"
    /\ ~Sess(task[c].sess).locked
    /\ Head(Sess(task[c].sess).waiters) = c
    /\ SetSession(task[c].sess, Enter([Sess(task[c].sess) EXCEPT !.waiters = Tail(@)]))
    /\ task' = [task EXCEPT ![c].pc = "request"]
    /\ UNCHANGED <<max_sessions, calls, callVars, assetVars, runVars>>

\* the request returns (ok) or raises: __aexit__ runs either way
request_done(c, ok) ==
    /\ task[c].pc = "request"
    /\ SetSession(task[c].sess, Release(Sess(task[c].sess)))
    /\ task' = [task EXCEPT ![c] = IdleTask]
    /\ UNCHANGED <<max_sessions, calls, callVars, assetVars, runVars>>

InitAuth ==
    /\ InitAssets
    /\ call = NoCall
    /\ \E ms \in 1..MaxSessionsLimit : AuthInit(ms)
    /\ RunInit

NextAuth ==
    \/ login_with_token
    \/ \E c \in Callers, srvArg \in Servers \cup {None} : auth_request(c, srvArg)
    \/ \E c \in Callers, srvArg \in Servers \cup {None} : multi_auth_request(c, srvArg)
    \/ \E c \in Callers : wait_for_free_session(c)
    \/ \E c \in Callers : create_new_session(c)
    \/ \E c \in Callers : create_new_session_fails(c)
    \/ \E c \in Callers : acquire_woken(c)
    \/ \E c \in Callers, ok \in BOOLEAN : request_done(c, ok)

SpecAuth == InitAuth /\ [][NextAuth]_vars

----------------------------------------------------------------------------
(* Properties of the authentication clients *)

\* the names of the sessions: Auth.session and every MultiAuth session
SessionIds == 0..Len(sessions)

\* the callers whose request on the session is in flight
InFlight(i) == {c \in Callers : task[c].pc = "request" /\ task[c].sess = i}

\* C15: a session never has two requests in flight, whichever client it
\* belongs to and however the calls interleave: a request starts on a session
\* only while no other request of the session is in flight, and the lock of a
\* session is held exactly while a request of it is in flight, so it is
\* released after every request, returned or raised.
C15_OneInFlight ==
    \A i \in SessionIds :
        /\ Cardinality(InFlight(i)) <= 1
        /\ Sess(i).locked <=> InFlight(i) # {}

\* a caller waits for the lock of a session while the request of another
\* caller is in flight on it
C15_Witness ==
    \E c, d \in Callers :
        /\ task[c].pc = "request"
        /\ task[d].pc = "acquire"
        /\ task[d].sess = task[c].sess

C17_AtMostMaxSessions == \A srv \in Servers : SessionsOf(srv) <= max_sessions

\* the sessions of a server that are not locked
FreeOf(srv) == {i \in DOMAIN sessions : sessions[i].server = srv /\ ~sessions[i].locked}

\* caller c starts a MultiAuth.auth_request in this step
Starts(c) == task[c].pc = "idle" /\ task'[c].client = "MultiAuth"

\* a call that finds a free session of its server enters a free session and
\* the sessions stay as many; a call that finds none and fewer than
\* max_sessions sessions of the server goes on to create one
ReusesOrCreates ==
    \A c \in Callers :
        Starts(c) =>
            IF FreeOf(task'[c].server) # {}
            THEN /\ Len(sessions') = Len(sessions)
                 /\ task'[c].pc = "request"
                 /\ task'[c].sess \in FreeOf(task'[c].server)
            ELSE /\ sessions' = sessions
                 /\ SessionsOf(task'[c].server) < max_sessions => task'[c].pc = "create"

\* sessions are never removed, and they are added one at a time, by a call
\* that found no free session, for the server of the call
CreatesExactlyOne ==
    sessions' # sessions /\ Len(sessions') # Len(sessions) =>
        \E c \in Callers :
            /\ task[c].pc = "create"
            /\ task'[c].pc = "request"
            /\ task'[c].sess = Len(sessions')
            /\ Len(sessions') = Len(sessions) + 1
            /\ sessions'[Len(sessions')].server = task[c].server
            /\ \A i \in DOMAIN sessions : sessions'[i] = sessions[i]

\* the calls of test_guest_auth: en, jp and en one after the other, then two
\* overlapping calls for en
Sequential(srv) == [event |-> "call", server |-> srv, overlaps |-> FALSE]
TestCalls ==
    <<Sequential("en"), Sequential("jp"), Sequential("en"), Sequential("en"),
      [event |-> "call", server |-> "en", overlaps |-> TRUE]>>

\* every call has finished
AllIdle == \A c \in Callers : task[c].pc = "idle"

\* with max_sessions = 2, the three sequential calls leave one session of en
\* and one of jp, and the two overlapping calls leave two of en and three in all
TestGuestAuth ==
    max_sessions = 2 /\ AllIdle =>
        /\ calls = SubSeq(TestCalls, 1, 3) =>
              SessionsOf("en") = 1 /\ SessionsOf("jp") = 1 /\ Len(sessions) = 2
        /\ calls = TestCalls =>
              SessionsOf("en") = 2 /\ SessionsOf("jp") = 1 /\ Len(sessions) = 3

\* C18: MultiAuth.auth_request reuses a free session of the requested server
\* when there is one and creates none; with no free session and fewer than
\* max_sessions sessions of the server it creates exactly one (provided the
\* login of the new session does not raise).  Hence, with max_sessions = 2,
\* the calls en, jp, en one after the other leave one en and one jp session,
\* and two overlapping calls for en then leave two en sessions, three in all.
C18_ReuseOrCreateOne ==
    /\ [][ReusesOrCreates /\ CreatesExactlyOne]_vars
    /\ []TestGuestAuth

\* the calls of test_guest_auth have all been made and have finished
C18_Witness ==
    /\ max_sessions = 2
    /\ AllIdle
    /\ calls = TestCalls
    /\ Len(sessions) = 3

----------------------------------------------------------------------------
(* Properties of repeated update_assets calls *)

\* the listed names that match the allow pattern of the call
AllowedNames(abInfos, pattern) ==
    SelectSeq(NamesOf(abInfos), LAMBDA name : fnmatch(name, pattern))

\* the batch ends by writing the fetched manifest, whatever the bundles did
SavesAtEndOfBatch ==
    (pc = "unpack" /\ pc' = "done") =>
        /\ result' = "returned"
        /\ server \in DOMAIN stored'
        /\ stored'[server] = hot_update_list

\* a call that fetches the manifest it finds stored requests nothing unless
\* it is forced, and every listed name that matches allow when it is
RetriesOnlyWhenForced ==
    (pc = "fetch" /\ pc' \in {"fbs", "download"}
        /\ server \in DOMAIN stored /\ stored[server] = hot_update_list') =>
        requested_names' = IF force THEN AllowedNames(hot_update_list', allow) ELSE <<>>

\* a call that is not forced and has fetched the manifest it found stored
\* sends no request for a bundle
NothingSentWhenUnchanged ==
    (~force /\ old_hot_update_list = Some(hot_update_list)) => attempts = NoAttempts

\* C21: update_assets writes the fetched manifest at the end of the batch
\* also when bundles failed to decode; a later call that is not forced and
\* fetches the same manifest therefore downloads nothing, the failed bundle
\* included, and a forced call downloads every matching bundle again.
C21_StoredDespiteFailure ==
    /\ [][SavesAtEndOfBatch /\ RetriesOnlyWhenForced]_vars
    /\ []NothingSentWhenUnchanged

\* the second entry of GA failed to decode in an earlier batch (the first
\* is on disk with the content of the hash, the second is not), and a later
\* call that is not forced and allows GA has returned without a request for it
C21_Witness ==
    /\ pc = "done"
    /\ result = "returned"
    /\ ~force
    /\ old_hot_update_list = Some(hot_update_list)
    /\ fnmatch(GA, allow)
    /\ \E i \in DOMAIN hot_update_list :
          /\ hot_update_list[i].name = GA
          /\ get_file(ExcelPath("t1"), server) =
                Some(json_dumps(TableOf(hot_update_list[i].hash)))
          /\ get_file(ExcelPath("t2"), server) = Nothing
    /\ attempts[GA] = 0

\* the file at <root>/<srv>/<path> of a directory tree d, None when absent
FileAt(d, srv, path) ==
    IF srv \in DOMAIN d /\ path \in DOMAIN d[srv] THEN Some(d[srv][path]) ELSE Nothing

\* the bundle whose generator this step consumes fails at an entry: the file
\* of that entry is after the step what it was before
FailedEntryKept ==
    \A b \in BundleNames :
        (b \in unpacked' \ unpacked /\ failed_at'[b] >= 1) =>
            FileAt(disk', server, EntriesOf(b)[failed_at'[b]]) =
                FileAt(disk, server, EntriesOf(b)[failed_at'[b]])

\* a file that a step of the batch changes belongs to an entry that was
\* decoded in that step: one before the failing entry, or any if none failed
WrittenOnlyWhenDecoded ==
    \A path \in {ExcelPath(t) : t \in TableNames} :
        FileAt(disk', server, path) # FileAt(disk, server, path) =>
            \E b \in unpacked' \ unpacked :
                \E i \in DOMAIN EntriesOf(b) :
                    /\ EntriesOf(b)[i] = path
                    /\ failed_at'[b] = -1 \/ i < failed_at'[b]

\* C22: when the decoding of an entry fails, the file persisted for that
\* entry is left as it was; a file is written only for an entry that has
\* been decoded.
C22_FailedEntryUntouched == [][FailedEntryKept /\ WrittenOnlyWhenDecoded]_vars

\* the second entry of GA failed to decode in this call: its file still has
\* the content of an earlier hash, the file of the first entry the new content
C22_Witness ==
    /\ failed_at[GA] = 2
    /\ \E i \in DOMAIN hot_update_list :
          /\ hot_update_list[i].name = GA
          /\ get_file(ExcelPath("t1"), server) =
                Some(json_dumps(TableOf(hot_update_list[i].hash)))
          /\ \E h \in Hashes \ {hot_update_list[i].hash} :
                get_file(ExcelPath("t2"), server) = Some(json_dumps(TableOf(h)))

----------------------------------------------------------------------------
(* Properties of unpack_assets *)

\* sub occurs in str at position i
OccursAt(str, sub, i) ==
    i >= 1 /\ i + Len(sub) - 1 <= Len(str) /\ SubSeq(str, i, i + Len(sub) - 1) = sub

\* the positions from `from` on at which sub occurs in str
Occurrences(str, sub, from) == {i \in from..Len(str) : OccursAt(str, sub, i)}

\* the positions from `from` on at which ".bytes" or six hex digits and
\* ".bytes" occur in str
BytesSuffixes(str, from) ==
    {i \in from..Len(str) :
        \/ OccursAt(str, <<".", "b", "y", "t", "e", "s">>, i)
        \/ /\ OccursAt(str, <<".", "b", "y", "t", "e", "s">>, i + 6)
           /\ \A k \in i..(i + 5) : str[k] \in HexChars}

\* the directory that a level path starts with, empty when it is none
LevelDir(rel) ==
    IF OccursAt(rel, <<"g", "a", "m", "e", "d", "a", "t", "a", "/", "l", "e", "v", "e", "l", "s", "/", "o", "b", "t", "/">>, 1) THEN <<"g", "a", "m", "e", "d", "a", "t", "a", "/", "l", "e", "v", "e", "l", "s", "/", "o", "b", "t", "/">>
    ELSE IF OccursAt(rel, <<"g", "a", "m", "e", "d", "a", "t", "a", "/", "l", "e", "v", "e", "l", "s", "/", "a", "c", "t", "i", "v", "i", "t", "i", "e", "s", "/">>, 1)
         THEN <<"g", "a", "m", "e", "d", "a", "t", "a", "/", "l", "e", "v", "e", "l", "s", "/", "a", "c", "t", "i", "v", "i", "t", "i", "e", "s", "/">>
         ELSE <<>>

\* the rules of the dispatch table that match a container, by their number
RulesMatching(container) ==
    LET rel == SubSeq(container, Len(DYNP) + 1, Len(container))
        inGamedata == OccursAt(rel, <<"g", "a", "m", "e", "d", "a", "t", "a", "/">>, 1)
    IN  IF ~OccursAt(container, DYNP, 1) THEN {}
        ELSE {n \in 1..5 :
                 \/ n = 1 /\ Occurrences(rel, <<".", "t", "x", "t">>, 2) # {}
                 \/ n = 2 /\ inGamedata /\ Occurrences(rel, <<".", "j", "s", "o", "n">>, 11) # {}
                 \/ n = 3 /\ inGamedata /\ Occurrences(rel, <<".", "l", "u", "a", ".", "b", "y", "t", "e", "s">>, 11) # {}
                 \/ n = 4 /\ LevelDir(rel) # <<>>
                         /\ Occurrences(rel, <<".", "b", "y", "t", "e", "s">>, Len(LevelDir(rel)) + 2) # {}
                 \/ n = 5 /\ inGamedata /\ BytesSuffixes(rel, 11) # {}}

\* the output path that rule n gives a container it matches
PathOfRule(n, container) ==
    LET rel == SubSeq(container, Len(DYNP) + 1, Len(container))
        upTo(S) == SubSeq(rel, 1, Min(S) - 1)
    IN  CASE n = 1 -> SubSeq(rel, 1, Max(Occurrences(rel, <<".", "t", "x", "t">>, 2)) + 3)
          [] n = 2 -> upTo(Occurrences(rel, <<".", "j", "s", "o", "n">>, 11)) \o <<".", "j", "s", "o", "n">>
          [] n = 3 -> upTo(Occurrences(rel, <<".", "l", "u", "a", ".", "b", "y", "t", "e", "s">>, 11)) \o <<".", "l", "u", "a">>
          [] n = 4 -> upTo(Occurrences(rel, <<".", "b", "y", "t", "e", "s">>, Len(LevelDir(rel)) + 2)) \o <<".", "j", "s", "o", "n">>
          [] n = 5 -> upTo(BytesSuffixes(rel, 11)) \o <<".", "j", "s", "o", "n">>

\* what each rule does with the payload
RuleDecoders ==
    <<"script", "normalize_json", "decrypt_aes_text", "levels", "decrypt_arknights_text">>

\* the outputs that the table asks of an asset, in the order of its objects:
\* one for every text object that some rule matches, by the first such rule
RECURSIVE Dispatched(_)
Dispatched(asset) ==
    IF asset = <<>> THEN <<>>
    ELSE LET obj == Head(asset)
             rules == RulesMatching(obj.container)
         IN  (IF obj.type = "TextAsset" /\ rules # {}
              THEN <<[path |-> PathOfRule(Min(rules), obj.container),
                      by |-> RuleDecoders[Min(rules)]]>>
              ELSE <<>>)
             \o Dispatched(Tail(asset))

\* C23: unpack_assets dispatches every text object by the first rule of the
\* table that matches its container: the outputs are, in order, those of
\* the text objects that some rule matches, one each, with the path and the
\* decoder of the first matching rule; the other objects yield nothing and
\* raise nothing, so that an exception only ever cuts the outputs short at
\* an object that a rule matched
C23_FirstMatchingRule ==
    call.op = "unpack_assets" =>
        LET expected == Dispatched(call.asset)
            got == [i \in DOMAIN call.yielded |->
                        [path |-> call.yielded[i].path, by |-> call.yielded[i].by]]
        IN  /\ Len(got) <= Len(expected)
            /\ got = SubSeq(expected, 1, Len(got))
            /\ call.raised = "none" <=> Len(got) = Len(expected)

\* a *.txt.json container, which the passthrough rule takes before the JSON
\* rule, behind a text object that no rule matches
C23_Witness ==
    /\ call.op = "unpack_assets"
    /\ Len(call.asset) = 2
    /\ call.asset[1].container = C_ROOT_JSON /\ call.asset[1].type = "TextAsset"
    /\ call.asset[2].container = C_TXT_JSON /\ call.asset[2].type = "TextAsset"
    /\ RulesMatching(C_TXT_JSON) = {1, 2}
    /\ call.raised = "none"
    /\ Len(call.yielded) = 1
    /\ call.yielded[1].by = "script"

\* the call unpacked one text object that the levels rule takes
LevelCall ==
    /\ call.op = "unpack_assets"
    /\ Len(call.asset) = 1
    /\ call.asset[1].type = "TextAsset"
    /\ RulesMatching(call.asset[1].container) # {}
    /\ Min(RulesMatching(call.asset[1].container)) = 4

\* the payload behind the header is neither JSON or BSON nor, when the
\* output is not to be normalized, text that is handed on as it is
AttemptFails(script, normalize) ==
    LET payload == IF script.header THEN script.body ELSE "text"
    IN  payload = "fbs" \/ (payload = "text" /\ normalize)

\* C24: for a text object under gamedata/levels/(obt|activities)/ ending in
\* .bytes, unpack_assets yields <path>.json whatever the payload is: the
\* payload behind the 128-byte header read as JSON or BSON, and the binary
\* decoding with the schema prts___levels whenever that reading fails
C24_FallsBackOnFailure ==
    LevelCall =>
        /\ call.raised = "none"
        /\ Len(call.yielded) = 1
        /\ call.yielded[1].path = PathOfRule(4, call.asset[1].container)
        /\ AttemptFails(call.asset[1].script, call.normalize)
               <=> call.yielded[1].data[1] = "decrypt_fbs_file"

----------------------------------------------------------------------------
(* Properties of decrypt_aes_text *)

\* the padding of a decrypted buffer is consistent: its last byte n is
\* between 1 and the block size, no more than the buffer holds, and the
\* last n bytes all equal n
ConsistentPadding(buffer) ==
    /\ buffer # <<>>
    /\ LET n == buffer[Len(buffer)]
       IN  /\ n >= 1 /\ n <= BlockSize /\ n <= Len(buffer)
           /\ \A i \in (Len(buffer) - n + 1)..Len(buffer) : buffer[i] = n

\* C25: decrypt_aes_text returns the decrypted buffer without its last n
\* bytes, where n is its last byte, when the padding is consistent, and
\* raises an error instead of returning a result when it is not
C25_FailsOnBadPadding ==
    call.op = "decrypt_aes_text" =>
        IF ConsistentPadding(call.buffer)
        THEN /\ call.raised = "none"
             /\ Val(call.ret) \o [i \in 1..call.buffer[Len(call.buffer)] |->
                                      call.buffer[Len(call.buffer)]] = call.buffer
        ELSE call.raised # "none"

----------------------------------------------------------------------------
(* _download_asset and load_version_config in concurrent coroutines *)

\* at most MaxRequests version requests are sent for a server
MaxRequests == 2

\* self.network.versions[server] once load_version_config has updated it
LoadedVersion == [resVersion |-> "v1"]

\* _download_asset up to its first await: with no version known for the
\* server it sends the "hv" request of load_version_config, otherwise it
\* goes on to the GET of the file
download_asset(r, srv) ==
    /\ run[r] = IdleRun
    /\ IF DOMAIN versions[srv] = {}
       THEN /\ Len(hv_requests[srv]) < MaxRequests
            /\ hv_requests' = [hv_requests EXCEPT ![srv] = Append(@, "sent")]
            /\ run' = [run EXCEPT ![r] = [pc |-> "load_version_config", server |-> srv,
                                          request |-> Len(hv_requests[srv]) + 1]]
       ELSE /\ run' = [run EXCEPT ![r] = [pc |-> "get", server |-> srv]]
            /\ UNCHANGED hv_requests
    /\ UNCHANGED <<assetVars, callVars, authVars, versions, fbs_updates, scratch, downloaded,
                   futures, decoded_by>>

\* the "hv" request is answered: self.versions[server].update(data)
load_version_config(r) ==
    /\ run[r].pc = "load_version_config"
    /\ hv_requests' = [hv_requests EXCEPT ![run[r].server][run[r].request] = "answered"]
    /\ versions' = [versions EXCEPT ![run[r].server] = LoadedVersion]
    /\ run' = [run EXCEPT ![r] = [pc |-> "get", server |-> run[r].server]]
    /\ UNCHANGED <<assetVars, callVars, authVars, fbs_updates, scratch, downloaded,
                   futures, decoded_by>>

\* the "hv" request raises, and the exception leaves _download_asset
load_version_config_raises(r) ==
    /\ run[r].pc = "load_version_config"
    /\ hv_requests' = [hv_requests EXCEPT ![run[r].server][run[r].request] = "failed"]
    /\ run' = [run EXCEPT ![r] = IdleRun]
    /\ UNCHANGED <<assetVars, callVars, authVars, versions, fbs_updates, scratch, downloaded,
                   futures, decoded_by>>

\* the GET of the file returns or raises; its URL holds
\* versions[server]["resVersion"]
download_asset_done(r) ==
    /\ run[r].pc = "get"
    /\ "resVersion" \in DOMAIN versions[run[r].server]
    /\ run' = [run EXCEPT ![r] = IdleRun]
    /\ UNCHANGED <<assetVars, callVars, authVars, versions, hv_requests, fbs_updates,
                   scratch, downloaded, futures, decoded_by>>

NextVersion ==
    \/ \E r \in Runs, srv \in Servers : download_asset(r, srv)
    \/ \E r \in Runs : load_version_config(r)
    \/ \E r \in Runs : load_version_config_raises(r)
    \/ \E r \in Runs : download_asset_done(r)

SpecVersion == Init /\ [][NextVersion]_vars

\* the version requests for a server that did not fail
Answerable(srv) ==
    {i \in DOMAIN hv_requests[srv] : hv_requests[srv][i] # "failed"}

\* C26: the version configuration of a server is requested at most once:
\* whatever fetches for the server run one after the other or overlap,
\* besides requests that failed no second request is sent
C26_VersionRequestedOnce ==
    \A srv \in Servers : Cardinality(Answerable(srv)) <= 1

----------------------------------------------------------------------------
(* update_assets: the executor and the loop over its futures *)

\* another coroutine of the event loop takes at most MaxSteps steps
MaxSteps == 3

\* the comprehension of loop.run_in_executor calls: one future per
\* downloaded bundle, each for the call _parse_and_save(d, ...) in a thread
\* of the pool; update_assets then waits for the first future
run_in_executor(names) ==
    /\ run["r1"] = IdleRun
    /\ \A b \in BundleNames : futures[b] = "none"
    /\ names # {}
    /\ futures' = [b \in BundleNames |-> IF b \in names THEN "pending" ELSE "none"]
    /\ run' = [run EXCEPT !["r1"] = [pc |-> "await", left |-> names]]
    /\ UNCHANGED <<assetVars, callVars, authVars, versions, hv_requests, fbs_updates,
                   scratch, downloaded, decoded_by>>

\* a thread of the pool calls _parse_and_save(d, ...).  The function holds
\* a yield, so the call runs nothing of its body: it returns a generator
\* that has not started, and that is the result of the future
worker_calls(b) ==
    /\ futures[b] = "pending"
    /\ futures' = [futures EXCEPT ![b] = "generator"]
    /\ UNCHANGED <<assetVars, callVars, authVars, run, versions, hv_requests,
                   fbs_updates, scratch, downloaded, decoded_by>>

\* `await f` of the loop over as_completed(futures): update_assets resumes
\* with the generator of a future that is done
await_future(b) ==
    /\ run["r1"].pc = "await"
    /\ b \in run["r1"].left
    /\ futures[b] = "generator"
    /\ run' = [run EXCEPT !["r1"] = [pc |-> "for", bundle |-> b, yielded |-> 0,
                                     left |-> run["r1"].left \ {b}]]
    /\ UNCHANGED <<assetVars, callVars, authVars, versions, hv_requests, fbs_updates,
                   scratch, downloaded, futures, decoded_by>>

\* where update_assets goes on when the loop over a generator is left
AfterFor(left) ==
    IF left = {} THEN [pc |-> "done"] ELSE [pc |-> "await", left |-> left]

\* one round of `for path, _ in <generator>`: next() runs the body of
\* _parse_and_save up to its next yield (load_unity_file before the first
\* entry, then unpack_assets with its decoders and write_bytes), in the
\* thread that iterates, which is the one of the event loop.  The round
\* yields an entry, or ends the loop by StopIteration or by an exception
next_entry(raises) ==
    /\ run["r1"].pc = "for"
    /\ decoded_by' = [decoded_by EXCEPT ![run["r1"].bundle] = @ \cup {"event loop"}]
    /\ run' = [run EXCEPT !["r1"] =
                  IF raises \/ run["r1"].yielded = Len(EntriesOf(run["r1"].bundle))
                  THEN AfterFor(run["r1"].left)
                  ELSE [run["r1"] EXCEPT !.yielded = @ + 1]]
    /\ UNCHANGED <<assetVars, callVars, authVars, versions, hv_requests, fbs_updates,
                   scratch, downloaded, futures>>

\* a step of another coroutine: the event loop runs it only while
\* update_assets is suspended at an await
other_coroutine ==
    /\ run["r1"].pc # "for"
    /\ run' = [run EXCEPT !["r2"] =
                  IF run["r2"] = IdleRun THEN [pc |-> "other", steps |-> 1]
                  ELSE [run["r2"] EXCEPT !.steps = @ + 1]]
    /\ run["r2"] # IdleRun => run["r2"].steps < MaxSteps
    /\ UNCHANGED <<assetVars, callVars, authVars, versions, hv_requests, fbs_updates,
                   scratch, downloaded, futures, decoded_by>>

NextPool ==
    \/ \E names \in SUBSET BundleNames : run_in_executor(names)
    \/ \E b \in BundleNames : worker_calls(b)
    \/ \E b \in BundleNames : await_future(b)
    \/ \E raises \in BOOLEAN : next_entry(raises)
    \/ other_coroutine

SpecPool == Init /\ [][NextPool]_vars

\* C27: every part of the decoding of a downloaded bundle (load_unity_file,
\* unpack_assets with its decoders, the schema compiler) is run by a thread
\* of the worker pool and none by the thread of the event loop
C27_DecodedByWorkerPool ==
    \A b \in BundleNames : decoded_by[b] \subseteq {"worker"}

----------------------------------------------------------------------------
(* decrypt_fbs_file in concurrent threads or processes *)

\* the tables and payloads that the invocations are called with
FbsTables == {"character_table", "prts___levels"}
FbsPayloads == {"p1", "p2"}

\* a variant of decrypt_fbs_file that names its scratch files after the
\* invocation as well
ScratchNameOfInvocation(r, table_name) == <<table_name, r>>

\* the name that fbs_path, <tmp>/TempArknightsFBS/<table_name>.bytes, and
\* the output path, <tmp>/TempArknightsFBS/output/<table_name>.json, are
\* built from
ScratchName(r, table_name) == <<table_name>>

\* what flatc writes for the payload it reads
Flatc(payload) == <<"flatc", payload>>

\* fbs_path.write_bytes(data)
write_bytes(r, table_name, data) ==
    /\ run[r] = IdleRun
    /\ scratch' = Put(scratch, ScratchName(r, table_name),
                      [input |-> data,
                       output |-> IF ScratchName(r, table_name) \in DOMAIN scratch
                                  THEN scratch[ScratchName(r, table_name)].output
                                  ELSE Nothing])
    /\ run' = [run EXCEPT ![r] = [pc |-> "run_flatbuffers", table_name |-> table_name,
                                  data |-> data]]
    /\ UNCHANGED <<assetVars, callVars, authVars, versions, hv_requests, fbs_updates,
                   downloaded, futures, decoded_by>>

\* run_flatbuffers: flatc reads fbs_path and writes the output path, or
\* exits with a code other than 0, which raises ValueError
run_flatbuffers(r, code) ==
    /\ run[r].pc = "run_flatbuffers"
    /\ LET name == ScratchName(r, run[r].table_name)
       IN  IF code = 0
           THEN /\ scratch' = Put(scratch, name,
                                  [scratch[name] EXCEPT !.output = Some(Flatc(scratch[name].input))])
                /\ run' = [run EXCEPT ![r].pc = "read_text"]
           ELSE /\ scratch' = scratch
                /\ run' = [run EXCEPT ![r].pc = "raised"]
    /\ UNCHANGED <<assetVars, callVars, authVars, versions, hv_requests, fbs_updates,
                   downloaded, futures, decoded_by>>

\* output_path.read_text(): what the invocation parses and returns
read_text(r) ==
    /\ run[r].pc = "read_text"
    /\ run' = [run EXCEPT ![r] =
                  [pc |-> "returned", table_name |-> run[r].table_name, data |-> run[r].data,
                   parsed_data |-> Val(scratch[ScratchName(r, run[r].table_name)].output)]]
    /\ UNCHANGED <<assetVars, callVars, authVars, versions, hv_requests, fbs_updates,
                   scratch, downloaded, futures, decoded_by>>

NextFbs ==
    \/ \E r \in Runs, table_name \in FbsTables, data \in FbsPayloads :
          write_bytes(r, table_name, data)
    \/ \E r \in Runs, code \in {0, 1} : run_flatbuffers(r, code)
    \/ \E r \in Runs : read_text(r)

SpecFbs == Init /\ [][NextFbs]_vars

\* the invocations that have been called for a table
InvocationsOf(table_name) ==
    {r \in Runs : run[r] # IdleRun /\ run[r].table_name = table_name}

\* C28: the invocations of decrypt_fbs_file for one table name use the same
\* scratch files, and what an invocation returns is the decoding of the
\* payload of some invocation for its table, its own or another's
C28_ScratchFilesShared ==
    \A table_name \in FbsTables :
        \A r \in InvocationsOf(table_name) :
            /\ \A q \in InvocationsOf(table_name) :
                  ScratchName(r, table_name) = ScratchName(q, table_name)
            /\ run[r].pc = "returned" =>
                  \E q \in InvocationsOf(table_name) : run[r].parsed_data = Flatc(run[q].data)

\* an invocation has returned the decoding of the other invocation's payload
C28_Witness ==
    \E r \in Runs, q \in Runs :
        /\ r # q
        /\ run[r].pc = "returned" /\ run[q] # IdleRun
        /\ run[q].table_name = run[r].table_name
        /\ run[r].parsed_data = Flatc(run[q].data)
        /\ run[r].parsed_data # Flatc(run[r].data)

----------------------------------------------------------------------------
(* update_fbs_schema in concurrent coroutines *)

\* at most MaxUpdates forced updates of a group are started
MaxUpdates == 2

\* for server, branch in [("cn", "main"), ("yostar", "YoStar")]
GroupOrder == <<"cn", "yostar">>

\* the variables of the asset pipeline besides UPDATED_FBS
pipelineVars == <<pc, server, allow, force, hot_update_list, old_hot_update_list,
                  outdated_names, requested_names, attempts, dl, unpacked,
                  failed_at, saved, result, loaded, stored, disk, excel_cache, ge>>

\* a variant of update_fbs_schema that never sets the flag of a group
FlagsKept(flags, group) == flags

\* UPDATED_FBS[server] = True
FlagSet(flags, group) == [flags EXCEPT ![group] = TRUE]

\* update_fbs_schema(force=forced) is called: the coroutine stands before
\* the first group
update_fbs_schema(r, forced) ==
    /\ run[r].pc \in {"idle", "returned", "raised"}
    /\ forced => \A g \in Groups : fbs_updates[g].forced < MaxUpdates
    /\ run' = [run EXCEPT ![r] = [pc |-> "group", force |-> forced, at |-> 1, skipped |-> {}]]
    /\ UNCHANGED <<pipelineVars, UPDATED_FBS, callVars, authVars, versions, hv_requests,
                   fbs_updates, scratch, downloaded, futures, decoded_by>>

\* where the coroutine stands when it is done with the group at position i
AfterGroup(r, i, skipped) ==
    IF i = Len(GroupOrder) THEN [run[r] EXCEPT !.pc = "returned", !.skipped = skipped]
    ELSE [run[r] EXCEPT !.pc = "group", !.at = i + 1, !.skipped = skipped]

\* one round of the loop up to its await: a group whose flag is set is
\* passed over unless force is given; otherwise the flag is set and the
\* update of the repository is started
check_group(r) ==
    /\ run[r].pc = "group"
    /\ LET g == GroupOrder[run[r].at]
       IN  IF UPDATED_FBS[g] /\ ~run[r].force
           THEN /\ run' = [run EXCEPT ![r] = AfterGroup(r, run[r].at, run[r].skipped \cup {g})]
                /\ UNCHANGED <<UPDATED_FBS, fbs_updates>>
           ELSE /\ UPDATED_FBS' = FlagSet(UPDATED_FBS, g)
                /\ fbs_updates' = [fbs_updates EXCEPT ![g] =
                                      IF run[r].force THEN [@ EXCEPT !.forced = @ + 1]
                                      ELSE [@ EXCEPT !.unforced = @ + 1]]
                /\ run' = [run EXCEPT ![r].pc = "update_repository"]
    /\ UNCHANGED <<pipelineVars, callVars, authVars, versions, hv_requests,
                   scratch, downloaded, futures, decoded_by>>

\* git.update_repository returns, or raises and ends the call
update_repository(r, raises) ==
    /\ run[r].pc = "update_repository"
    /\ run' = [run EXCEPT ![r] = IF raises THEN [run[r] EXCEPT !.pc = "raised"]
                                 ELSE AfterGroup(r, run[r].at, run[r].skipped)]
    /\ UNCHANGED <<pipelineVars, UPDATED_FBS, callVars, authVars, versions, hv_requests,
                   fbs_updates, scratch, downloaded, futures, decoded_by>>

NextSchema ==
    \/ \E r \in Runs, forced \in BOOLEAN : update_fbs_schema(r, forced)
    \/ \E r \in Runs : check_group(r)
    \/ \E r \in Runs, raises \in BOOLEAN : update_repository(r, raises)

SpecSchema == Init /\ [][NextSchema]_vars

\* a call without force starts the update of a group only if no update of
\* the group was started before
UnforcedStartsFirst ==
    \A g \in Groups :
        fbs_updates'[g].unforced > fbs_updates[g].unforced =>
            fbs_updates[g].unforced = 0 /\ fbs_updates[g].forced = 0

\* C29: without force the repository of a group is updated at most once per
\* process: whatever calls run one after the other or overlap, the calls
\* without force start at most one update of each group, and none for a
\* group whose update was started before
C29_UpdatedOncePerProcess ==
    /\ [][UnforcedStartsFirst]_vars
    /\ [](\A g \in Groups : fbs_updates[g].unforced <= 1)

\* a call without force has passed over cn while the update of cn that
\* another call started is still running
C29_Witness ==
    \E r \in Runs, q \in Runs :
        /\ r # q
        /\ run[q].pc = "update_repository" /\ GroupOrder[run[q].at] = "cn"
        /\ run[r].pc \in {"group", "update_repository", "returned"}
        /\ ~run[r].force /\ "cn" \in run[r].skipped
        /\ fbs_updates["cn"].unforced + fbs_updates["cn"].forced = 1

----------------------------------------------------------------------------
(* update_assets called again and again for one server *)

\* the gather, with the bundles that it returned the data of added to the
\* record of the downloads
GatherRecorded ==
    /\ GatherStep
    /\ downloaded' = downloaded \cup {n \in BundleNames : dl'[n] = "ok"}
    /\ UNCHANGED <<callVars, authVars, run, versions, hv_requests, fbs_updates,
                   scratch, futures, decoded_by>>

\* a call without force for the default server, made as long as no call
\* has raised
StartSync(pattern) ==
    /\ result # "raised"
    /\ Start(pattern, default_server, FALSE)

\* the remote manifest is fetched and is the one that was fetched before
FetchUnchanged(now) ==
    /\ server \in DOMAIN stored => now = stored[server]
    /\ FetchHotUpdateList(now)

NextSync ==
    \/ \E pattern \in AllowPatterns : StartSync(pattern)
    \/ FetchFails
    \/ \E now \in Manifests : FetchUnchanged(now)
    \/ UpdateFbsSchema
    \/ GatherRecorded
    \/ \E bundle \in BundleNames, k \in 0..3 : Consume(bundle, k)
    \/ SaveHotUpdateList

SpecSync == Init /\ [][NextSync]_vars

\* C30: when a call of a sequence of successful calls without force
\* against an unchanged remote manifest has returned, every bundle of the
\* manifest that matches the allow pattern of that call has been downloaded
\* during the sequence
C30_SelectedBundlesDownloaded ==
    (pc = "done" /\ result = "returned") =>
        Range(AllowedNames(hot_update_list, allow)) \subseteq downloaded

====
